---------------------------- MODULE Spec2Model ----------------------------
(***************************************************************************)
(* A model of the AI_PVSim analysis pipeline: PhaseDetector.detect_phases, *)
(* EnergyCalculator.calculate_phase_energies,                              *)
(* PerformanceComparator.compare_performance and the three callers of the  *)
(* pipeline (upload_file, api_analyze, main).                              *)
(*                                                                         *)
(* Python floats are modelled as exact rationals [n, d] in lowest terms    *)
(* with d > 0; frame indices are 0-based as in the source.                 *)
(***************************************************************************)
EXTENDS Integers, Sequences, FiniteSets, TLC

VARIABLES
    landmarks_list,   \* the per-frame landmarks of the video being analysed
    fps,              \* video_info['fps']
    self_phases,      \* PhaseDetector.phases
    detect_trace,     \* the locals of the last detect_phases that got past its first check
    identified,       \* a call of _identify_phase by itself: its signals and its result
    summary,          \* the value returned by get_phase_summary
    phases,           \* the value returned by detect_phases
    phase_energies,   \* the value returned by calculate_phase_energies
    energy_trace,     \* the per-interval locals of the last calculate_phase_energies
    heavier,          \* a second EnergyCalculator, of twice the mass, and its results
    athlete_mass,     \* the athlete mass handed to the run
    pixel_to_meter,   \* the pixel-to-meter ratio handed to the run
    reference_athletes, \* PerformanceComparator.REFERENCE_ATHLETES, a class attribute
    self_comparisons, \* PerformanceComparator.comparisons
    other_comparisons, \* the comparisons field of a second PerformanceComparator
    latest,           \* the last method call: its arguments and what it returned
    earlier,          \* an earlier call that the caller has kept, in the same form
    comparisons,      \* the value returned by compare_performance
    caller,           \* which entry point runs the pipeline
    pc,               \* the position of the current run
    invoked,          \* the pipeline stages the current run has called, in order
    outcome           \* how the current run ended

vars == <<landmarks_list, fps, self_phases, detect_trace, identified, summary, phases, phase_energies,
          energy_trace, heavier, athlete_mass, pixel_to_meter, reference_athletes,
          self_comparisons, other_comparisons, latest, earlier, comparisons, caller, pc,
          invoked,
          outcome>>

----------------------------------------------------------------------------
(* Bounds of the model *)

MaxFrames == 7

FpsSet == {30, 60}

----------------------------------------------------------------------------
(* Exact rational arithmetic standing in for Python float arithmetic *)

Abs(x) == IF x < 0 THEN -x ELSE x

RECURSIVE GCD(_, _)
GCD(a, b) == IF b = 0 THEN a ELSE GCD(b, a % b)

Rat(n, d) ==
    LET g == GCD(Abs(n), Abs(d))
        s == IF d < 0 THEN -1 ELSE 1
    IN  [n |-> s * (n \div g), d |-> s * (d \div g)]

Zero == [n |-> 0, d |-> 1]

FromInt(i) == [n |-> i, d |-> 1]

RAdd(a, b) ==
    LET g == GCD(a.d, b.d)
    IN  Rat(a.n * (b.d \div g) + b.n * (a.d \div g), (a.d \div g) * b.d)

RSub(a, b) ==
    LET g == GCD(a.d, b.d)
    IN  Rat(a.n * (b.d \div g) - b.n * (a.d \div g), (a.d \div g) * b.d)

RMul(a, b) ==
    LET g1 == GCD(Abs(a.n), b.d)
        g2 == GCD(Abs(b.n), a.d)
    IN  Rat((a.n \div g1) * (b.n \div g2), (a.d \div g2) * (b.d \div g1))

\* a / b for b # 0 (the callers guard b = 0)
RDiv(a, b) == RMul(a, Rat(b.d, b.n))

RLt(a, b) ==
    LET g == GCD(a.d, b.d)
    IN  a.n * (b.d \div g) < b.n * (a.d \div g)

RLe(a, b) ==
    LET g == GCD(a.d, b.d)
    IN  a.n * (b.d \div g) <= b.n * (a.d \div g)

RAbs(a) == [n |-> Abs(a.n), d |-> a.d]

RMax(a, b) == IF RLt(a, b) THEN b ELSE a

RMin(a, b) == IF RLt(b, a) THEN b ELSE a

RECURSIVE SeqSum(_)
SeqSum(s) ==
    IF s = <<>> THEN Zero
    ELSE IF Len(s) = 1 THEN s[1]
    ELSE RAdd(SeqSum(SubSeq(s, 1, Len(s) \div 2)),
              SeqSum(SubSeq(s, Len(s) \div 2 + 1, Len(s))))

RECURSIVE SeqMax(_)
SeqMax(s) ==
    IF Len(s) = 1 THEN s[1]
    ELSE RMax(SeqMax(SubSeq(s, 1, Len(s) \div 2)),
              SeqMax(SubSeq(s, Len(s) \div 2 + 1, Len(s))))

RECURSIVE SeqMin(_)
SeqMin(s) ==
    IF Len(s) = 1 THEN s[1]
    ELSE RMin(SeqMin(SubSeq(s, 1, Len(s) \div 2)),
              SeqMin(SubSeq(s, Len(s) \div 2 + 1, Len(s))))

\* np.mean of a non-empty list
Mean(s) == RDiv(SeqSum(s), FromInt(Len(s)))

\* Python's s[a:b] for 0 <= a, b <= len(s)
Slice(s, a, b) == IF a >= b THEN <<>> ELSE SubSeq(s, a + 1, b)

----------------------------------------------------------------------------
(* Landmark frames *)

\* detect_phases has not computed its signals yet
NoTrace == [velocities |-> <<>>, heights |-> <<>>, body_angles |-> <<>>,
            detected |-> <<>>, phases |-> <<>>]

\* _identify_phase has not been called by itself
NotIdentified == [phase |-> "None"]

\* get_phase_summary has not been called
NoSummary == [header |-> "not called", entries |-> <<>>]

\* no call has been made or kept
NoCall == [method |-> "none"]

\* no second EnergyCalculator has been built
NoCalculator == [athlete_mass |-> 0, phase_energies |-> <<>>, energy_trace |-> <<>>]

\* a frame in which no pose was detected
None == [none |-> TRUE]

Pt(x, y) == [x |-> x, y |-> y]

\* the landmarks of tests/test_pv_analyzer.py: upright, standing on the ground
PoseStand ==
    [left_hip |-> Pt(100, 200), right_hip |-> Pt(120, 200),
     left_shoulder |-> Pt(100, 180), right_shoulder |-> Pt(120, 180),
     left_ankle |-> Pt(100, 250), right_ankle |-> Pt(120, 250)]

\* body horizontal, high above the feet reference, a little further along x
PoseFly ==
    [left_hip |-> Pt(128, 100), right_hip |-> Pt(148, 100),
     left_shoulder |-> Pt(88, 100), right_shoulder |-> Pt(108, 100),
     left_ankle |-> Pt(160, 1000), right_ankle |-> Pt(160, 990)]

PoseSet == {PoseStand, PoseFly}

FrameSet == PoseSet \cup {None}

----------------------------------------------------------------------------
(* PhaseDetector *)

RUN == "run"
PLANT == "plant"
TAKEOFF == "take-off"
SWING_UP == "swing-up"
EXTENSION_INVERSION == "extension/inversion"
PUSH_OFF == "push-off"
PIKE == "pike"

VaultPhase == {RUN, PLANT, TAKEOFF, SWING_UP, EXTENSION_INVERSION, PUSH_OFF, PIKE}

\* current_phase before the first non-null frame
NoPhase == "None"

WindowSize == 5

_get_center_of_mass_x(landmarks) ==
    Rat(landmarks.left_hip.x + landmarks.right_hip.x
        + landmarks.left_shoulder.x + landmarks.right_shoulder.x, 4)

\* _calculate_velocities from the position instead of the displacement
\* (a variant used to test the sensitivity of C18)
_calculate_velocities_of_position(ll, f) ==
    [i \in 1..Len(ll) |->
        IF ll[i] = None THEN Zero
        ELSE IF i = 1 \/ ll[i - 1] = None THEN Zero
        ELSE RMul(_get_center_of_mass_x(ll[i]), FromInt(f))]

_calculate_velocities(ll, f) ==
    [i \in 1..Len(ll) |->
        IF ll[i] = None THEN Zero
        ELSE IF i = 1 \/ ll[i - 1] = None THEN Zero
        ELSE RMul(RSub(_get_center_of_mass_x(ll[i]), _get_center_of_mass_x(ll[i - 1])),
                  FromInt(f))]

\* _calculate_heights with the upper foot (the smaller y) as the ground
\* (a variant used to test the sensitivity of C24)
_calculate_heights_from_upper_foot(ll) ==
    [i \in 1..Len(ll) |->
        IF ll[i] = None THEN Zero
        ELSE LET com_y == Rat(ll[i].left_hip.y + ll[i].right_hip.y, 2)
                 ground_y == IF ll[i].left_ankle.y <= ll[i].right_ankle.y
                             THEN ll[i].left_ankle.y ELSE ll[i].right_ankle.y
             IN  RSub(FromInt(ground_y), com_y)]

_calculate_heights(ll) ==
    [i \in 1..Len(ll) |->
        IF ll[i] = None THEN Zero
        ELSE LET com_y == Rat(ll[i].left_hip.y + ll[i].right_hip.y, 2)
                 ground_y == IF ll[i].left_ankle.y >= ll[i].right_ankle.y
                             THEN ll[i].left_ankle.y ELSE ll[i].right_ankle.y
             IN  RSub(FromInt(ground_y), com_y)]

\* np.arctan2(dy, dx) * 180 / np.pi, on the directions that are multiples of 45
\* degrees (the only ones the frames of the model produce)
Atan2Deg(dy, dx) ==
    CASE dy.n = 0 /\ dx.n >= 0 -> FromInt(0)
      [] dy.n = 0 /\ dx.n < 0 -> FromInt(180)
      [] dx.n = 0 /\ dy.n > 0 -> FromInt(90)
      [] dx.n = 0 /\ dy.n < 0 -> FromInt(-90)
      [] dy.n > 0 /\ dx = dy -> FromInt(45)
      [] dy.n > 0 /\ RAdd(dx, dy) = Zero -> FromInt(135)
      [] dy.n < 0 /\ dx = dy -> FromInt(-135)
      [] dy.n < 0 /\ RAdd(dx, dy) = Zero -> FromInt(-45)

_calculate_body_angles(ll) ==
    [i \in 1..Len(ll) |->
        IF ll[i] = None THEN Zero
        ELSE LET shoulder_x == Rat(ll[i].left_shoulder.x + ll[i].right_shoulder.x, 2)
                 shoulder_y == Rat(ll[i].left_shoulder.y + ll[i].right_shoulder.y, 2)
                 hip_x == Rat(ll[i].left_hip.x + ll[i].right_hip.x, 2)
                 hip_y == Rat(ll[i].left_hip.y + ll[i].right_hip.y, 2)
             IN  Atan2Deg(RSub(hip_y, shoulder_y), RSub(hip_x, shoulder_x))]

\* ClassifyTriple with the SWING_UP rule open at |angle| = 30 and at
\* height = 200 (a variant used to test the sensitivity of C23)
ClassifyTriple_inclusive_swing_up(avg_velocity, avg_height, avg_angle) ==
    LET v == avg_velocity
        h == avg_height
        a == RAbs(avg_angle)
        K(i) == FromInt(i)
    IN  IF RLt(K(50), v) /\ RLt(h, K(150)) /\ RLt(a, K(30)) THEN RUN
        ELSE IF RLt(K(20), v) /\ RLt(v, K(50)) /\ RLt(K(100), h) /\ RLt(h, K(200)) THEN PLANT
        ELSE IF RLt(K(0), v) /\ RLt(K(150), h) /\ RLt(h, K(300)) /\ RLt(a, K(60)) THEN TAKEOFF
        ELSE IF RLe(K(200), h) /\ RLe(K(30), a) /\ RLt(a, K(90)) THEN SWING_UP
        ELSE IF RLt(K(250), h) /\ RLt(K(80), a) THEN EXTENSION_INVERSION
        ELSE IF RLt(K(300), h) /\ RLt(K(45), a) /\ RLt(a, K(90)) THEN PUSH_OFF
        ELSE IF RLt(K(200), h) /\ RLt(a, K(45)) THEN PIKE
        ELSE RUN

\* ClassifyTriple with the PUSH_OFF rule tried before the SWING_UP rule
\* (a variant used to test the sensitivity of C27)
ClassifyTriple_push_off_first(avg_velocity, avg_height, avg_angle) ==
    LET v == avg_velocity
        h == avg_height
        a == RAbs(avg_angle)
        K(i) == FromInt(i)
    IN  IF RLt(K(50), v) /\ RLt(h, K(150)) /\ RLt(a, K(30)) THEN RUN
        ELSE IF RLt(K(20), v) /\ RLt(v, K(50)) /\ RLt(K(100), h) /\ RLt(h, K(200)) THEN PLANT
        ELSE IF RLt(K(0), v) /\ RLt(K(150), h) /\ RLt(h, K(300)) /\ RLt(a, K(60)) THEN TAKEOFF
        ELSE IF RLt(K(300), h) /\ RLt(K(45), a) /\ RLt(a, K(90)) THEN PUSH_OFF
        ELSE IF RLt(K(200), h) /\ RLt(K(30), a) /\ RLt(a, K(90)) THEN SWING_UP
        ELSE IF RLt(K(250), h) /\ RLt(K(80), a) THEN EXTENSION_INVERSION
        ELSE IF RLt(K(200), h) /\ RLt(a, K(45)) THEN PIKE
        ELSE RUN

\* the ordered threshold rules over the smoothed signals
ClassifyTriple(avg_velocity, avg_height, avg_angle) ==
    LET v == avg_velocity
        h == avg_height
        a == RAbs(avg_angle)
        K(i) == FromInt(i)
    IN  IF RLt(K(50), v) /\ RLt(h, K(150)) /\ RLt(a, K(30)) THEN RUN
        ELSE IF RLt(K(20), v) /\ RLt(v, K(50)) /\ RLt(K(100), h) /\ RLt(h, K(200)) THEN PLANT
        ELSE IF RLt(K(0), v) /\ RLt(K(150), h) /\ RLt(h, K(300)) /\ RLt(a, K(60)) THEN TAKEOFF
        ELSE IF RLt(K(200), h) /\ RLt(K(30), a) /\ RLt(a, K(90)) THEN SWING_UP
        ELSE IF RLt(K(250), h) /\ RLt(K(80), a) THEN EXTENSION_INVERSION
        ELSE IF RLt(K(300), h) /\ RLt(K(45), a) /\ RLt(a, K(90)) THEN PUSH_OFF
        ELSE IF RLt(K(200), h) /\ RLt(a, K(45)) THEN PIKE
        ELSE RUN

_identify_phase(frame_idx, velocities, heights, body_angles) ==
    LET start_idx == IF frame_idx - WindowSize > 0 THEN frame_idx - WindowSize ELSE 0
        end_idx == IF frame_idx + WindowSize + 1 < Len(velocities)
                   THEN frame_idx + WindowSize + 1 ELSE Len(velocities)
    IN  ClassifyTriple(Mean(Slice(velocities, start_idx, end_idx)),
                       Mean(Slice(heights, start_idx, end_idx)),
                       Mean(Slice(body_angles, start_idx, end_idx)))

\* [v for v in phase_velocities if v is not None and v != 0]
NonZero(s) == SelectSeq(s, LAMBDA v : v # Zero)

\* VelocityStats over all the velocities of the range, the zero ones too
\* (a variant used to test the sensitivity of C25)
VelocityStats_unfiltered(phase_velocities) ==
    IF NonZero(phase_velocities) # <<>>
    THEN [max |-> SeqMax(phase_velocities),
          average |-> Mean(phase_velocities),
          min |-> SeqMin(phase_velocities),
          initial |-> phase_velocities[1],
          final |-> phase_velocities[Len(phase_velocities)]]
    ELSE [max |-> Zero, average |-> Zero, min |-> Zero,
          initial |-> Zero, final |-> Zero]

VelocityStats(phase_velocities) ==
    LET filtered == NonZero(phase_velocities)
    IN  IF filtered # <<>>
        THEN [max |-> SeqMax(filtered),
              average |-> Mean(filtered),
              min |-> SeqMin(filtered),
              initial |-> phase_velocities[1],
              final |-> phase_velocities[Len(phase_velocities)]]
        ELSE [max |-> Zero, average |-> Zero, min |-> Zero,
              initial |-> Zero, final |-> Zero]

\* ClosedPhase with the duration taken as the span end_frame - start_frame
\* (a variant used to test the sensitivity of C29)
ClosedPhase_span_duration(current_phase, phase_start, frame_idx, velocities, f) ==
    [phase |-> current_phase,
     start_frame |-> phase_start,
     end_frame |-> frame_idx - 1,
     duration |-> Rat(frame_idx - 1 - phase_start, f),
     velocity_stats |-> VelocityStats(Slice(velocities, phase_start, frame_idx))]

\* the interval appended when the phase changes at frame_idx
ClosedPhase(current_phase, phase_start, frame_idx, velocities, f) ==
    [phase |-> current_phase,
     start_frame |-> phase_start,
     end_frame |-> frame_idx - 1,
     duration |-> Rat(frame_idx - phase_start, f),
     velocity_stats |-> VelocityStats(Slice(velocities, phase_start, frame_idx))]

\* FinalPhase with the duration taken as the span end_frame - start_frame
\* (a variant used to test the sensitivity of C4)
FinalPhase_span_duration(current_phase, phase_start, n, velocities, f) ==
    [phase |-> current_phase,
     start_frame |-> phase_start,
     end_frame |-> n - 1,
     duration |-> Rat(n - 1 - phase_start, f),
     velocity_stats |-> VelocityStats(Slice(velocities, phase_start, n))]

\* the interval appended after the loop
FinalPhase(current_phase, phase_start, n, velocities, f) ==
    [phase |-> current_phase,
     start_frame |-> phase_start,
     end_frame |-> n - 1,
     duration |-> Rat(n - phase_start, f),
     velocity_stats |-> VelocityStats(Slice(velocities, phase_start, n))]

\* what _identify_phase returns at each frame with a pose (0-based frame i at
\* place i + 1); the loop never asks for a frame without one
DetectedPhases(ll, f) ==
    LET velocities == _calculate_velocities(ll, f)
        heights == _calculate_heights(ll)
        body_angles == _calculate_body_angles(ll)
    IN  [i \in 1..Len(ll) |->
            IF ll[i] = None THEN NoPhase
            ELSE _identify_phase(i - 1, velocities, heights, body_angles)]

\* DetectLoop with the final interval appended even when no phase is open
\* (a variant used to test the sensitivity of C3)
RECURSIVE DetectLoop_without_final_guard(_, _, _, _, _, _, _, _)
DetectLoop_without_final_guard(frame_idx, current_phase, phase_start, acc, ll, f, velocities, detected) ==
    LET changing == {i \in frame_idx..(Len(ll) - 1) :
                       ll[i + 1] # None /\ detected[i + 1] # current_phase}
    IN  IF changing = {}
        THEN Append(acc, FinalPhase(current_phase, phase_start, Len(ll), velocities, f))
        ELSE LET change_idx == CHOOSE i \in changing : \A j \in changing : i <= j
                 detected_phase == detected[change_idx + 1]
             IN  DetectLoop_without_final_guard(change_idx + 1, detected_phase, change_idx,
                            IF current_phase # NoPhase
                            THEN Append(acc, ClosedPhase(current_phase, phase_start,
                                                         change_idx, velocities, f))
                            ELSE acc,
                            ll, f, velocities, detected)

\* DetectLoop without the skip of null frames: a null frame counts as a frame
\* of no phase (a variant used to test the sensitivity of C26)
RECURSIVE DetectLoop_without_null_skip(_, _, _, _, _, _, _, _)
DetectLoop_without_null_skip(frame_idx, current_phase, phase_start, acc, ll, f, velocities, detected) ==
    LET changing == {i \in frame_idx..(Len(ll) - 1) :
                       detected[i + 1] # current_phase}
    IN  IF changing = {}
        THEN IF current_phase # NoPhase
             THEN Append(acc, FinalPhase(current_phase, phase_start, Len(ll), velocities, f))
             ELSE acc
        ELSE LET change_idx == CHOOSE i \in changing : \A j \in changing : i <= j
                 detected_phase == detected[change_idx + 1]
             IN  DetectLoop_without_null_skip(change_idx + 1, detected_phase, change_idx,
                            IF current_phase # NoPhase
                            THEN Append(acc, ClosedPhase(current_phase, phase_start,
                                                         change_idx, velocities, f))
                            ELSE acc,
                            ll, f, velocities, detected)

\* DetectLoop with the first interval opened at frame 0 instead of at the frame
\* that opens it (a variant used to test the sensitivity of C28)
RECURSIVE DetectLoop_first_from_zero(_, _, _, _, _, _, _, _)
DetectLoop_first_from_zero(frame_idx, current_phase, phase_start, acc, ll, f, velocities, detected) ==
    LET changing == {i \in frame_idx..(Len(ll) - 1) :
                       ll[i + 1] # None /\ detected[i + 1] # current_phase}
    IN  IF changing = {}
        THEN IF current_phase # NoPhase
             THEN Append(acc, FinalPhase(current_phase, phase_start, Len(ll), velocities, f))
             ELSE acc
        ELSE LET change_idx == CHOOSE i \in changing : \A j \in changing : i <= j
                 detected_phase == detected[change_idx + 1]
             IN  DetectLoop_first_from_zero(change_idx + 1, detected_phase,
                            IF current_phase = NoPhase THEN 0 ELSE change_idx,
                            IF current_phase # NoPhase
                            THEN Append(acc, ClosedPhase(current_phase, phase_start,
                                                         change_idx, velocities, f))
                            ELSE acc,
                            ll, f, velocities, detected)

\* the frame loop of detect_phases, from frame_idx on. The iterations that
\* change nothing (a null frame, or a detected phase equal to current_phase)
\* are passed over: the loop goes on at the next frame that changes the phase.
RECURSIVE DetectLoop(_, _, _, _, _, _, _, _)
DetectLoop(frame_idx, current_phase, phase_start, acc, ll, f, velocities, detected) ==
    LET changing == {i \in frame_idx..(Len(ll) - 1) :
                       ll[i + 1] # None /\ detected[i + 1] # current_phase}
    IN  IF changing = {}
        THEN IF current_phase # NoPhase
             THEN Append(acc, FinalPhase(current_phase, phase_start, Len(ll), velocities, f))
             ELSE acc
        ELSE LET change_idx == CHOOSE i \in changing : \A j \in changing : i <= j
                 detected_phase == detected[change_idx + 1]
             IN  DetectLoop(change_idx + 1, detected_phase, change_idx,
                            IF current_phase # NoPhase
                            THEN Append(acc, ClosedPhase(current_phase, phase_start,
                                                         change_idx, velocities, f))
                            ELSE acc,
                            ll, f, velocities, detected)

\* the locals of detect_phases when it returns from a non-empty list: the three
\* signals, what _identify_phase returned at each frame with a pose, and phases
DetectRun(ll, f) ==
    LET velocities == _calculate_velocities(ll, f)
        detected == DetectedPhases(ll, f)
    IN  [velocities |-> velocities,
         heights |-> _calculate_heights(ll),
         body_angles |-> _calculate_body_angles(ll),
         detected |-> detected,
         phases |-> DetectLoop(0, NoPhase, 0, <<>>, ll, f, velocities, detected)]

\* detect_phases with the intervals appended to self.phases instead of to a
\* fresh list (a variant used to test the sensitivity of C21)
detect_phases_onto_stored(ll, f) ==
    IF ll = <<>> THEN <<>>
    ELSE self_phases \o DetectRun(ll, f).phases

\* the value detect_phases returns
detect_phases(ll, f) ==
    IF ll = <<>> THEN <<>>
    ELSE DetectRun(ll, f).phases

----------------------------------------------------------------------------
(* The reference catalog of PerformanceComparator *)

RefPhase(energy_generated, optimal_duration) ==
    [energy_generated |-> FromInt(energy_generated), optimal_duration |-> optimal_duration]

\* the fields of the catalog that the comparison reads
REFERENCE_ATHLETES ==
    << [key |-> "mondo_duplantis",
        value |-> [name |-> "Armand \"Mondo\" Duplantis",
                   mass |-> 79,
                   phase_energies |-> <<
                       [key |-> RUN, value |-> RefPhase(2200, Rat(35, 10))],
                       [key |-> PLANT, value |-> RefPhase(200, Rat(3, 10))],
                       [key |-> TAKEOFF, value |-> RefPhase(300, Rat(4, 10))],
                       [key |-> SWING_UP, value |-> RefPhase(800, Rat(8, 10))],
                       [key |-> EXTENSION_INVERSION, value |-> RefPhase(1200, Rat(6, 10))],
                       [key |-> PUSH_OFF, value |-> RefPhase(500, Rat(3, 10))],
                       [key |-> PIKE, value |-> RefPhase(-200, Rat(5, 10))] >>]],
       [key |-> "karvala_manolo",
        value |-> [name |-> "Karvalho Manolo (Fictional Reference)",
                   mass |-> 75,
                   phase_energies |-> <<
                       [key |-> RUN, value |-> RefPhase(2000, Rat(38, 10))],
                       [key |-> PLANT, value |-> RefPhase(180, Rat(35, 100))],
                       [key |-> TAKEOFF, value |-> RefPhase(280, Rat(45, 100))],
                       [key |-> SWING_UP, value |-> RefPhase(750, Rat(85, 100))],
                       [key |-> EXTENSION_INVERSION, value |-> RefPhase(1100, Rat(65, 100))],
                       [key |-> PUSH_OFF, value |-> RefPhase(450, Rat(35, 100))],
                       [key |-> PIKE, value |-> RefPhase(-180, Rat(55, 100))] >>]] >>

----------------------------------------------------------------------------
(* Segmentation of a video: frames are appended as process_video reads them, *)
(* then detect_phases runs on the finished list                              *)

\* what a run leaves alone unless it looks at the phase summary, compares, or
\* remembers a call
Reuse == <<identified, summary, reference_athletes, other_comparisons, latest, earlier>>

IdleRun == <<caller, invoked, outcome, athlete_mass, pixel_to_meter, phase_energies,
             energy_trace, heavier, self_comparisons, comparisons, summary,
             reference_athletes, other_comparisons, latest, earlier>>

InitDetect ==
    /\ landmarks_list = <<>>
    /\ fps \in FpsSet
    /\ self_phases = <<>>
    /\ phases = <<>>
    /\ phase_energies = <<>>
    /\ energy_trace = <<>>
    /\ heavier = NoCalculator
    /\ athlete_mass = 70
    /\ pixel_to_meter = Rat(1, 100)
    /\ self_comparisons = <<>>
    /\ comparisons = <<>>
    /\ caller = "test"
    /\ pc = "capture"
    /\ invoked = <<>>
    /\ outcome = "none"
    /\ detect_trace = NoTrace
    /\ identified = NotIdentified
    /\ summary = NoSummary
    /\ reference_athletes = REFERENCE_ATHLETES
    /\ other_comparisons = <<>>
    /\ latest = NoCall
    /\ earlier = NoCall

\* VideoProcessor.process_video: one more frame, with or without a pose
AppendFrame ==
    /\ pc = "capture"
    /\ Len(landmarks_list) < MaxFrames
    /\ \E frame \in FrameSet : landmarks_list' = Append(landmarks_list, frame)
    /\ UNCHANGED <<fps, self_phases, detect_trace, identified, phases, pc>>
    /\ UNCHANGED IdleRun

\* the number of frames of the video of the tests
TestFrames == 30

\* the video of the tests: landmarks_list = [landmarks] * 30
AppendTestVideo ==
    /\ pc = "capture"
    /\ landmarks_list = <<>>
    /\ \E landmarks \in PoseSet : landmarks_list' = [i \in 1..TestFrames |-> landmarks]
    /\ UNCHANGED <<fps, self_phases, detect_trace, identified, phases, pc>>
    /\ UNCHANGED IdleRun

\* PhaseDetector.detect_phases(landmarks_list, video_info)
DetectPhasesCall ==
    /\ pc = "capture"
    /\ IF landmarks_list = <<>>
       THEN /\ phases' = <<>>
            /\ UNCHANGED <<self_phases, detect_trace>>
       ELSE LET run == DetectRun(landmarks_list, fps)
            IN  /\ phases' = run.phases
                /\ self_phases' = run.phases
                /\ detect_trace' = run
    /\ pc' = "detected"
    /\ UNCHANGED <<landmarks_list, fps, identified>>
    /\ UNCHANGED IdleRun

\* the smoothed signals _identify_phase is tried on: values below, at, between
\* and above the thresholds of its rules
VelocitySet == {FromInt(v) : v \in {-10, 0, 10, 20, 35, 50, 60}}

HeightSet == {FromInt(h) : h \in {50, 100, 125, 150, 175, 200, 225, 250, 275, 300, 350}}

AngleSet == {FromInt(a) : a \in {-100, -85, -50, -40, 0, 20, 30, 40, 45, 50, 60, 70, 80, 85,
                                  90, 100}}

\* _identify_phase(0, landmarks_list, [velocity], [height], [angle]): on lists
\* of one frame the smoothed signals are the signals themselves
IdentifyPhaseCall ==
    /\ pc = "capture"
    /\ landmarks_list = <<>>
    /\ \E velocity \in VelocitySet, height \in HeightSet, angle \in AngleSet :
          identified' = [velocity |-> velocity, height |-> height, angle |-> angle,
                         phase |-> _identify_phase(0, <<velocity>>, <<height>>, <<angle>>)]
    /\ pc' = "identified"
    /\ UNCHANGED <<landmarks_list, fps, self_phases, detect_trace, phases>>
    /\ UNCHANGED <<caller, invoked, outcome, athlete_mass, pixel_to_meter, phase_energies,
                   energy_trace, heavier, self_comparisons, comparisons, summary,
                   reference_athletes, other_comparisons, latest, earlier>>

NextDetect == AppendFrame \/ AppendTestVideo \/ DetectPhasesCall \/ IdentifyPhaseCall

SpecDetect == InitDetect /\ [][NextDetect]_vars

----------------------------------------------------------------------------
(* Python dicts: a sequence of [key, value] entries in insertion order, keys *)
(* distinct                                                                  *)

Keys(d) == {d[i].key : i \in 1..Len(d)}

Get(d, k) == (CHOOSE i \in 1..Len(d) : d[i].key = k)

Lookup(d, k) == d[Get(d, k)].value

\* d.setdefault(k, v): a key already present keeps its value
\* (a variant used to test the sensitivity of C17)
DictSet_keep_first(d, k, v) ==
    IF k \in Keys(d) THEN d ELSE Append(d, [key |-> k, value |-> v])

\* d[k] = v
DictSet(d, k, v) ==
    IF k \in Keys(d)
    THEN [d EXCEPT ![Get(d, k)] = [key |-> k, value |-> v]]
    ELSE Append(d, [key |-> k, value |-> v])

RECURSIVE Concat(_)
Concat(ss) == IF ss = <<>> THEN <<>> ELSE Head(ss) \o Concat(Tail(ss))

----------------------------------------------------------------------------
(* PerformanceComparator *)

\* athlete_mass / reference_mass
MassFactor(mass, reference_mass) == Rat(mass, reference_mass)

\* ref_phase['energy_generated'] * mass_factor
\* ScaledReference that leaves the reference energy at the reference mass
\* (a variant used to test the sensitivity of C13)
ScaledReference_unscaled(ref_energy, mass_factor) == ref_energy

ScaledReference(ref_energy, mass_factor) == RMul(ref_energy, mass_factor)

\* EnergyRatio against the reference energy without the mass factor
\* (a variant used to test the sensitivity of C7)
EnergyRatio_unscaled(athlete_energy, ref_energy, mass_factor) ==
    IF ref_energy # Zero THEN RDiv(athlete_energy, ref_energy) ELSE Zero

EnergyRatio(athlete_energy, ref_energy, mass_factor) ==
    IF ScaledReference(ref_energy, mass_factor) # Zero
    THEN RDiv(athlete_energy, ScaledReference(ref_energy, mass_factor))
    ELSE Zero

\* PerformanceLevel with strict thresholds
\* (a variant used to test the sensitivity of C8)
PerformanceLevel_strict(energy_ratio) ==
    IF RLt(Rat(95, 100), energy_ratio) THEN "Excellent"
    ELSE IF RLt(Rat(85, 100), energy_ratio) THEN "Good"
    ELSE IF RLt(Rat(75, 100), energy_ratio) THEN "Fair"
    ELSE "Needs Improvement"

PerformanceLevel(energy_ratio) ==
    IF RLe(Rat(95, 100), energy_ratio) THEN "Excellent"
    ELSE IF RLe(Rat(85, 100), energy_ratio) THEN "Good"
    ELSE IF RLe(Rat(75, 100), energy_ratio) THEN "Fair"
    ELSE "Needs Improvement"

\* the entry stored in phase_comparisons for one phase
PhaseComparison(athlete_phase, ref_phase, mass, reference_mass) ==
    LET mass_factor == MassFactor(mass, reference_mass)
        energy_ratio == EnergyRatio(athlete_phase.energy_generated,
                                    ref_phase.energy_generated, mass_factor)
    IN  [athlete_energy |-> athlete_phase.energy_generated,
         reference_energy |-> ScaledReference(ref_phase.energy_generated, mass_factor),
         energy_difference |-> RSub(athlete_phase.energy_generated,
                                    ScaledReference(ref_phase.energy_generated, mass_factor)),
         energy_ratio |-> energy_ratio,
         athlete_duration |-> athlete_phase.duration,
         reference_duration |-> ref_phase.optimal_duration,
         duration_difference |-> RSub(athlete_phase.duration, ref_phase.optimal_duration),
         performance_level |-> PerformanceLevel(energy_ratio)]

\* _get_phase_recommendation: the table has a text for every phase and issue
\* type; the text is named by its place in the table
_get_phase_recommendation(phase_name, issue_type) ==
    IF phase_name \in VaultPhase /\ issue_type \in {"energy", "duration_long", "duration_short"}
    THEN <<phase_name, issue_type>>
    ELSE "Continue training this phase."

\* EnergyRecommendation that also fires at a ratio of exactly 0.85
\* (a variant used to test the sensitivity of C9)
EnergyRecommendation_inclusive(phase_name, energy_ratio) ==
    IF RLe(energy_ratio, Rat(85, 100))
    THEN << [phase |-> phase_name,
             issue |-> [type |-> "energy",
                        amount |-> RMul(RSub(FromInt(1), energy_ratio), FromInt(100))],
             suggestion |-> _get_phase_recommendation(phase_name, "energy")] >>
    ELSE <<>>

\* the 'issue' text is kept as the issue type and the unformatted amount
EnergyRecommendation(phase_name, energy_ratio) ==
    IF RLt(energy_ratio, Rat(85, 100))
    THEN << [phase |-> phase_name,
             issue |-> [type |-> "energy",
                        amount |-> RMul(RSub(FromInt(1), energy_ratio), FromInt(100))],
             suggestion |-> _get_phase_recommendation(phase_name, "energy")] >>
    ELSE <<>>

\* DurationRecommendation that also fires at a difference of exactly 0.2
\* (a variant used to test the sensitivity of C10)
DurationRecommendation_inclusive(phase_name, duration_diff) ==
    IF RLe(Rat(2, 10), RAbs(duration_diff))
    THEN IF RLt(Zero, duration_diff)
         THEN << [phase |-> phase_name,
                  issue |-> [type |-> "duration_long", amount |-> duration_diff],
                  suggestion |-> _get_phase_recommendation(phase_name, "duration_long")] >>
         ELSE << [phase |-> phase_name,
                  issue |-> [type |-> "duration_short", amount |-> RAbs(duration_diff)],
                  suggestion |-> _get_phase_recommendation(phase_name, "duration_short")] >>
    ELSE <<>>

DurationRecommendation(phase_name, duration_diff) ==
    IF RLt(Rat(2, 10), RAbs(duration_diff))
    THEN IF RLt(Zero, duration_diff)
         THEN << [phase |-> phase_name,
                  issue |-> [type |-> "duration_long", amount |-> duration_diff],
                  suggestion |-> _get_phase_recommendation(phase_name, "duration_long")] >>
         ELSE << [phase |-> phase_name,
                  issue |-> [type |-> "duration_short", amount |-> RAbs(duration_diff)],
                  suggestion |-> _get_phase_recommendation(phase_name, "duration_short")] >>
    ELSE <<>>

\* _calculate_overall_score without the cap of a phase score at 100
\* (a variant used to test the sensitivity of C11)
_calculate_overall_score_uncapped(phase_comparisons) ==
    IF phase_comparisons = <<>> THEN Zero
    ELSE Mean([i \in 1..Len(phase_comparisons) |->
                 RMul(phase_comparisons[i].value.energy_ratio, FromInt(100))])

_calculate_overall_score(phase_comparisons) ==
    IF phase_comparisons = <<>> THEN Zero
    ELSE Mean([i \in 1..Len(phase_comparisons) |->
                 RMin(RMul(phase_comparisons[i].value.energy_ratio, FromInt(100)),
                      FromInt(100))])

\* _compare_to_reference that leaves the phase loop after the first compared phase
\* (a variant used to test the sensitivity of C12)
_compare_to_reference_first_only(athlete_energies, reference_energies, mass, reference_mass, reference_name) ==
    LET present == SelectSeq(athlete_energies,
                             LAMBDA e : e.key \in Keys(reference_energies))
        compared == IF present = <<>> THEN <<>> ELSE <<present[1]>>
        Cmp(i) == PhaseComparison(compared[i].value,
                                  Lookup(reference_energies, compared[i].key),
                                  mass, reference_mass)
        phase_comparisons ==
            [i \in 1..Len(compared) |-> [key |-> compared[i].key, value |-> Cmp(i)]]
        recommendations ==
            Concat([i \in 1..Len(compared) |->
                      EnergyRecommendation(compared[i].key, Cmp(i).energy_ratio)
                      \o DurationRecommendation(compared[i].key, Cmp(i).duration_difference)])
    IN  [reference_name |-> reference_name,
         phase_comparisons |-> phase_comparisons,
         recommendations |-> recommendations,
         overall_score |-> _calculate_overall_score(phase_comparisons)]

_compare_to_reference(athlete_energies, reference_energies, mass, reference_mass, reference_name) ==
    LET compared == SelectSeq(athlete_energies,
                              LAMBDA e : e.key \in Keys(reference_energies))
        Cmp(i) == PhaseComparison(compared[i].value,
                                  Lookup(reference_energies, compared[i].key),
                                  mass, reference_mass)
        phase_comparisons ==
            [i \in 1..Len(compared) |-> [key |-> compared[i].key, value |-> Cmp(i)]]
        recommendations ==
            Concat([i \in 1..Len(compared) |->
                      EnergyRecommendation(compared[i].key, Cmp(i).energy_ratio)
                      \o DurationRecommendation(compared[i].key, Cmp(i).duration_difference)])
    IN  [reference_name |-> reference_name,
         phase_comparisons |-> phase_comparisons,
         recommendations |-> recommendations,
         overall_score |-> _calculate_overall_score(phase_comparisons)]

\* the value compare_performance returns
compare_performance(athlete_energies, mass) ==
    [r \in 1..Len(reference_athletes) |->
        [key |-> reference_athletes[r].key,
         value |-> _compare_to_reference(athlete_energies,
                                         reference_athletes[r].value.phase_energies,
                                         mass,
                                         reference_athletes[r].value.mass,
                                         reference_athletes[r].value.name)]]

----------------------------------------------------------------------------
(* Comparison of an athlete energy map: the arguments are drawn from the     *)
(* sets below, then compare_performance runs on them                         *)

\* masses handed to compare_performance (it validates nothing itself)
MassSet == {0, 70, 79, 200}

EnergyEntry(k, e, dur) ==
    [key |-> k, value |-> [energy_generated |-> FromInt(e), duration |-> dur]]

\* run energies: a loss, nothing, the level thresholds of the 79 kg profile at
\* its own mass, the sample of the tests, and a surplus. The durations of both
\* phases are ones whose float difference to the optimal durations falls on the
\* same side of 0.2 as the exact difference (0.3 and 0.7 against 0.5 are the
\* boundary itself).
RunEntries ==
    {EnergyEntry(RUN, e, dur) :
        e \in {-500, 0, 1650, 1870, 2090, 2100, 3000},
        dur \in {Rat(329, 100), Rat(35, 10), Rat(371, 100)}}

PikeEntries ==
    {EnergyEntry(PIKE, e, dur) :
        e \in {-200, -150, 0, 100},
        dur \in {Rat(29, 100), Rat(3, 10), Rat(5, 10), Rat(7, 10), Rat(71, 100)}}

\* a key that no reference profile has
OtherEntries == {EnergyEntry("warm-up", 100, Rat(1, 1))}

Opt(S) == {<<>>} \cup {<<e>> : e \in S}

AthleteEnergyMaps ==
    {r \o p \o o : r \in Opt(RunEntries), p \in Opt(PikeEntries), o \in Opt(OtherEntries)}

InitCompare ==
    /\ landmarks_list = <<>>
    /\ fps = 30
    /\ self_phases = <<>>
    /\ phases = <<>>
    /\ phase_energies \in AthleteEnergyMaps
    /\ energy_trace = <<>>
    /\ heavier = NoCalculator
    /\ athlete_mass \in MassSet
    /\ pixel_to_meter = Rat(1, 100)
    /\ self_comparisons = <<>>
    /\ comparisons = <<>>
    /\ caller = "test"
    /\ pc = "energies"
    /\ invoked = <<>>
    /\ outcome = "none"
    /\ detect_trace = NoTrace
    /\ identified = NotIdentified
    /\ summary = NoSummary
    /\ reference_athletes = REFERENCE_ATHLETES
    /\ other_comparisons = <<>>
    /\ latest = NoCall
    /\ earlier = NoCall

\* PerformanceComparator.compare_performance(athlete_energies, athlete_mass)
ComparePerformanceCall ==
    /\ pc = "energies"
    /\ LET result == compare_performance(phase_energies, athlete_mass)
       IN  /\ comparisons' = result
           /\ self_comparisons' = result
    /\ pc' = "compared"
    /\ UNCHANGED <<landmarks_list, fps, self_phases, phases, phase_energies, energy_trace,
                   heavier, athlete_mass, pixel_to_meter, caller, invoked, outcome>>
    /\ UNCHANGED <<detect_trace, identified, summary, reference_athletes, other_comparisons,
                   latest, earlier>>

NextCompare == ComparePerformanceCall

SpecCompare == InitCompare /\ [][NextCompare]_vars

----------------------------------------------------------------------------
(* EnergyCalculator *)

\* 9.81 m/s^2
GRAVITY == Rat(981, 100)

\* Python's s[a:b] with b clamped to len(s)
ClampedSlice(s, a, b) == Slice(s, a, IF b > Len(s) THEN Len(s) ELSE b)

_get_center_of_mass(landmarks) ==
    [x |-> Rat(landmarks.left_hip.x + landmarks.right_hip.x
               + landmarks.left_shoulder.x + landmarks.right_shoulder.x, 4),
     y |-> Rat(landmarks.left_hip.y + landmarks.right_hip.y
               + landmarks.left_shoulder.y + landmarks.right_shoulder.y, 4)]

\* KineticEnergyAt with the velocity taken from the position of the center of
\* mass instead of its displacement (a variant used to test the sensitivity of C19)
KineticEnergyAt_of_position(prev, curr, f, mass, p2m) ==
    LET com_curr == _get_center_of_mass(curr)
        dx_m == RMul(com_curr.x, p2m)
        dy_m == RMul(com_curr.y, p2m)
        velocity_sq == RMul(RAdd(RMul(dx_m, dx_m), RMul(dy_m, dy_m)), FromInt(f * f))
    IN  RMul(RMul(Rat(1, 2), FromInt(mass)), velocity_sq)

\* KineticEnergyAt without the mass: 0.5 * velocity ** 2
\* (a variant used to test the sensitivity of C20)
KineticEnergyAt_without_mass(prev, curr, f, mass, p2m) ==
    LET com_curr == _get_center_of_mass(curr)
        com_prev == _get_center_of_mass(prev)
        dx_m == RMul(RSub(com_curr.x, com_prev.x), p2m)
        dy_m == RMul(RSub(com_curr.y, com_prev.y), p2m)
        velocity_sq == RMul(RAdd(RMul(dx_m, dx_m), RMul(dy_m, dy_m)), FromInt(f * f))
    IN  RMul(Rat(1, 2), velocity_sq)

\* 0.5 * m * velocity ** 2 with velocity = sqrt(dx_m ** 2 + dy_m ** 2) / dt and
\* dt = 1 / fps: the square of the root is taken as exact
KineticEnergyAt(prev, curr, f, mass, p2m) ==
    LET com_curr == _get_center_of_mass(curr)
        com_prev == _get_center_of_mass(prev)
        dx_m == RMul(RSub(com_curr.x, com_prev.x), p2m)
        dy_m == RMul(RSub(com_curr.y, com_prev.y), p2m)
        velocity_sq == RMul(RAdd(RMul(dx_m, dx_m), RMul(dy_m, dy_m)), FromInt(f * f))
    IN  RMul(RMul(Rat(1, 2), FromInt(mass)), velocity_sq)

_calculate_kinetic_energy(ll, f, mass, p2m) ==
    [i \in 1..Len(ll) |->
        IF ll[i] = None THEN Zero
        ELSE IF i = 1 \/ ll[i - 1] = None THEN Zero
        ELSE KineticEnergyAt(ll[i - 1], ll[i], f, mass, p2m)]

IntMax(a, b) == IF a >= b THEN a ELSE b

\* ground_level after the first loop of _calculate_potential_energy over ll[1..k]
RECURSIVE GroundLevel(_, _)
GroundLevel(ll, k) ==
    IF k = 0 THEN 0
    ELSE IF ll[k] = None THEN GroundLevel(ll, k - 1)
    ELSE IntMax(GroundLevel(ll, k - 1), IntMax(ll[k].left_ankle.y, ll[k].right_ankle.y))

\* PotentialEnergyAt without the max(0, pe)
\* (a variant used to test the sensitivity of C14)
PotentialEnergyAt_unclamped(landmarks, ground_level, mass, p2m) ==
    RMul(RMul(FromInt(mass), GRAVITY),
         RMul(RSub(FromInt(ground_level), _get_center_of_mass(landmarks).y), p2m))

PotentialEnergyAt(landmarks, ground_level, mass, p2m) ==
    LET height_pixels == RSub(FromInt(ground_level), _get_center_of_mass(landmarks).y)
        height_m == RMul(height_pixels, p2m)
        pe == RMul(RMul(FromInt(mass), GRAVITY), height_m)
    IN  RMax(Zero, pe)

_calculate_potential_energy(ll, mass, p2m) ==
    [i \in 1..Len(ll) |->
        IF ll[i] = None THEN Zero
        ELSE PotentialEnergyAt(ll[i], GroundLevel(ll, Len(ll)), mass, p2m)]

\* the initial / final / max / average of one energy series
EnergyStats(series) ==
    IF series # <<>>
    THEN [initial |-> series[1],
          final |-> series[Len(series)],
          max |-> SeqMax(series),
          average |-> Mean(series)]
    ELSE [initial |-> Zero, final |-> Zero, max |-> Zero, average |-> Zero]

\* PhaseSeries with the kinetic energies computed over the whole video and
\* then cut to the interval (a variant used to test the sensitivity of C15)
PhaseSeries_kinetic_of_video(ll, phase_info, f, mass, p2m) ==
    LET phase_landmarks == ClampedSlice(ll, phase_info.start_frame, phase_info.end_frame + 1)
        kinetic_energies == ClampedSlice(_calculate_kinetic_energy(ll, f, mass, p2m),
                                         phase_info.start_frame, phase_info.end_frame + 1)
        potential_energies == _calculate_potential_energy(phase_landmarks, mass, p2m)
    IN  [phase_landmarks |-> phase_landmarks,
         kinetic_energies |-> kinetic_energies,
         potential_energies |-> potential_energies,
         total_energies |-> [i \in 1..Len(phase_landmarks) |->
                               RAdd(kinetic_energies[i], potential_energies[i])]]

\* the lists calculate_phase_energies builds for one phase interval
PhaseSeries(ll, phase_info, f, mass, p2m) ==
    LET phase_landmarks == ClampedSlice(ll, phase_info.start_frame, phase_info.end_frame + 1)
        kinetic_energies == _calculate_kinetic_energy(phase_landmarks, f, mass, p2m)
        potential_energies == _calculate_potential_energy(phase_landmarks, mass, p2m)
    IN  [phase_landmarks |-> phase_landmarks,
         kinetic_energies |-> kinetic_energies,
         potential_energies |-> potential_energies,
         total_energies |-> [i \in 1..Len(phase_landmarks) |->
                               RAdd(kinetic_energies[i], potential_energies[i])]]

\* PhaseEnergy with energy_generated taken as the final total energy alone
\* (a variant used to test the sensitivity of C16)
PhaseEnergy_final_total(ll, phase_info, f, mass, p2m) ==
    LET total_energies == PhaseSeries(ll, phase_info, f, mass, p2m).total_energies
    IN  [kinetic_energy |-> EnergyStats(PhaseSeries(ll, phase_info, f, mass, p2m).kinetic_energies),
         potential_energy |-> EnergyStats(PhaseSeries(ll, phase_info, f, mass, p2m).potential_energies),
         total_energy |-> EnergyStats(total_energies),
         energy_generated |-> IF total_energies # <<>>
                              THEN total_energies[Len(total_energies)]
                              ELSE Zero,
         duration |-> phase_info.duration]

\* the record stored for one phase interval
PhaseEnergy(ll, phase_info, f, mass, p2m) ==
    LET total_energies == PhaseSeries(ll, phase_info, f, mass, p2m).total_energies
    IN  [kinetic_energy |-> EnergyStats(PhaseSeries(ll, phase_info, f, mass, p2m).kinetic_energies),
         potential_energy |-> EnergyStats(PhaseSeries(ll, phase_info, f, mass, p2m).potential_energies),
         total_energy |-> EnergyStats(total_energies),
         energy_generated |-> IF total_energies # <<>>
                              THEN RSub(total_energies[Len(total_energies)], total_energies[1])
                              ELSE Zero,
         duration |-> phase_info.duration]

\* phase_energies after the first k intervals of the phase list
RECURSIVE EnergiesUpTo(_, _, _, _, _, _)
EnergiesUpTo(ll, phs, k, f, mass, p2m) ==
    IF k = 0 THEN <<>>
    ELSE DictSet(EnergiesUpTo(ll, phs, k - 1, f, mass, p2m),
                 phs[k].phase,
                 PhaseEnergy(ll, phs[k], f, mass, p2m))

\* the value calculate_phase_energies returns
calculate_phase_energies(ll, phs, f, mass, p2m) ==
    EnergiesUpTo(ll, phs, Len(phs), f, mass, p2m)

\* what each iteration of the loop of calculate_phase_energies computed: the
\* phase key, the three lists and the record assigned to the key
EnergyTrace(ll, phs, f, mass, p2m) ==
    [k \in 1..Len(phs) |->
        [phase |-> phs[k].phase,
         kinetic_energies |-> PhaseSeries(ll, phs[k], f, mass, p2m).kinetic_energies,
         potential_energies |-> PhaseSeries(ll, phs[k], f, mass, p2m).potential_energies,
         total_energies |-> PhaseSeries(ll, phs[k], f, mass, p2m).total_energies,
         record |-> PhaseEnergy(ll, phs[k], f, mass, p2m)]]

----------------------------------------------------------------------------
(* The callers of the pipeline: upload_file and api_analyze (app.py) and     *)
(* main (pv_sim.py). Every run builds its own VideoProcessor, PhaseDetector, *)
(* EnergyCalculator and PerformanceComparator.                               *)

Callers == {"upload_file", "api_analyze", "main"}

\* the callers that validate the mass and check for a detected pose
CheckingCallers == {"upload_file", "main"}

\* masses a request can carry
RequestMassSet == {-5, 0, 70, 200, 250}

MaxVideoFrames == 2

RECURSIVE SeqsUpTo(_, _)
SeqsUpTo(S, n) ==
    IF n = 0 THEN {<<>>}
    ELSE LET shorter == SeqsUpTo(S, n - 1)
         IN  shorter \cup {Append(q, x) : q \in {r \in shorter : Len(r) = n - 1}, x \in S}

\* the landmark lists process_video can return
VideoSet == SeqsUpTo(FrameSet, MaxVideoFrames)

\* not landmarks_list or all(lm is None for lm in landmarks_list)
NoPoseDetected(ll) == \A i \in 1..Len(ll) : ll[i] = None

InitPipeline ==
    /\ landmarks_list = <<>>
    /\ fps \in FpsSet
    /\ self_phases = <<>>
    /\ phases = <<>>
    /\ phase_energies = <<>>
    /\ energy_trace = <<>>
    /\ heavier = NoCalculator
    /\ athlete_mass \in RequestMassSet
    /\ pixel_to_meter = Rat(1, 100)
    /\ self_comparisons = <<>>
    /\ comparisons = <<>>
    /\ caller \in Callers
    /\ pc = "request"
    /\ invoked = <<>>
    /\ outcome = "none"
    /\ detect_trace = NoTrace
    /\ identified = NotIdentified
    /\ summary = NoSummary
    /\ reference_athletes = REFERENCE_ATHLETES
    /\ other_comparisons = <<>>
    /\ latest = NoCall
    /\ earlier = NoCall

Data == <<landmarks_list, fps, self_phases, detect_trace, phases, phase_energies,
          energy_trace, heavier, athlete_mass, pixel_to_meter, self_comparisons, comparisons,
          caller, identified, summary, reference_athletes, other_comparisons, latest, earlier>>

\* no video in the request, no file name, a file type that is not allowed
\* (upload_file, api_analyze), or a video path that does not exist (main)
RejectRequest ==
    /\ pc = "request"
    /\ pc' = "done"
    /\ outcome' = "bad_request"
    /\ UNCHANGED invoked
    /\ UNCHANGED Data

\* the mass check of upload_file and main; api_analyze has none
ValidateMass ==
    /\ pc = "request"
    /\ IF caller \in CheckingCallers /\ (athlete_mass <= 0 \/ athlete_mass > 200)
       THEN pc' = "done" /\ outcome' = "invalid_mass"
       ELSE pc' = "validated" /\ UNCHANGED outcome
    /\ UNCHANGED invoked
    /\ UNCHANGED Data

\* video_processor.process_video returns the landmarks of the video's frames
ProcessVideo ==
    /\ pc = "validated"
    /\ \E ll \in VideoSet : landmarks_list' = ll
    /\ invoked' = Append(invoked, "process_video")
    /\ pc' = "processed"
    /\ UNCHANGED <<fps, self_phases, phases, phase_energies, energy_trace, heavier,
                   athlete_mass, pixel_to_meter, self_comparisons, comparisons, caller,
                   outcome>>
    /\ UNCHANGED <<detect_trace, identified, summary, reference_athletes, other_comparisons,
                   latest, earlier>>

\* video_processor.process_video raises (the video cannot be opened)
ProcessVideoFails ==
    /\ pc = "validated"
    /\ invoked' = Append(invoked, "process_video")
    /\ pc' = "done"
    /\ outcome' = "error"
    /\ UNCHANGED Data

\* the no-pose check of upload_file and main; api_analyze has none
CheckPose ==
    /\ pc = "processed"
    /\ IF caller \in CheckingCallers /\ NoPoseDetected(landmarks_list)
       THEN pc' = "done" /\ outcome' = "no_pose"
       ELSE pc' = "pose_ok" /\ UNCHANGED outcome
    /\ UNCHANGED invoked
    /\ UNCHANGED Data

\* phase_detector.detect_phases, and the no-phases check of upload_file and main
DetectPhasesStep ==
    /\ pc = "pose_ok"
    /\ LET result == detect_phases(landmarks_list, fps)
       IN  /\ phases' = result
           /\ self_phases' = IF landmarks_list = <<>> THEN self_phases ELSE result
           /\ detect_trace' = IF landmarks_list = <<>> THEN detect_trace
                              ELSE DetectRun(landmarks_list, fps)
           /\ IF caller \in CheckingCallers /\ result = <<>>
              THEN pc' = "done" /\ outcome' = "no_phases"
              ELSE pc' = "segmented" /\ UNCHANGED outcome
    /\ invoked' = Append(invoked, "detect_phases")
    /\ UNCHANGED <<landmarks_list, fps, phase_energies, energy_trace, heavier,
                   athlete_mass, pixel_to_meter, self_comparisons, comparisons, caller>>
    /\ UNCHANGED Reuse

\* energy_calculator.calculate_phase_energies
CalculateEnergiesStep ==
    /\ pc = "segmented"
    /\ phase_energies' = calculate_phase_energies(landmarks_list, phases, fps,
                                                  athlete_mass, pixel_to_meter)
    /\ energy_trace' = EnergyTrace(landmarks_list, phases, fps, athlete_mass, pixel_to_meter)
    /\ invoked' = Append(invoked, "calculate_phase_energies")
    /\ pc' = "energies"
    /\ UNCHANGED <<landmarks_list, fps, self_phases, phases, heavier, athlete_mass,
                   pixel_to_meter, self_comparisons, comparisons, caller, outcome>>
    /\ UNCHANGED <<detect_trace, identified, summary, reference_athletes, other_comparisons,
                   latest, earlier>>

\* comparator.compare_performance
ComparePerformanceStep ==
    /\ pc = "energies"
    /\ LET result == compare_performance(phase_energies, athlete_mass)
       IN  /\ comparisons' = result
           /\ self_comparisons' = result
    /\ invoked' = Append(invoked, "compare_performance")
    /\ pc' = "compared"
    /\ UNCHANGED <<landmarks_list, fps, self_phases, phases, phase_energies, energy_trace,
                   heavier, athlete_mass, pixel_to_meter, caller, outcome>>
    /\ UNCHANGED <<detect_trace, identified, summary, reference_athletes, other_comparisons,
                   latest, earlier>>

\* the results are rendered, saved or printed
ReportResults ==
    /\ pc = "compared"
    /\ pc' = "done"
    /\ outcome' = "results"
    /\ UNCHANGED invoked
    /\ UNCHANGED Data

NextPipeline ==
    \/ RejectRequest
    \/ ValidateMass
    \/ ProcessVideo
    \/ ProcessVideoFails
    \/ CheckPose
    \/ DetectPhasesStep
    \/ CalculateEnergiesStep
    \/ ComparePerformanceStep
    \/ ReportResults

SpecPipeline == InitPipeline /\ [][NextPipeline]_vars

----------------------------------------------------------------------------
(* Energy calculation on a hand-made phase list, as in                       *)
(* tests/test_pv_analyzer.py: the landmark list, the intervals, the fps, the *)
(* mass and the pixel ratio are drawn from the sets below, then              *)
(* calculate_phase_energies runs on them, and once more in a calculator of   *)
(* twice the mass                                                            *)

MaxEnergyFrames == 3

\* upside down: shoulders below the hips, feet above them; the center of mass
\* is that of PoseStand
PoseInverted ==
    [left_hip |-> Pt(100, 180), right_hip |-> Pt(120, 180),
     left_shoulder |-> Pt(100, 200), right_shoulder |-> Pt(120, 200),
     left_ankle |-> Pt(100, 130), right_ankle |-> Pt(120, 130)]

EnergyFrameSet == FrameSet \cup {PoseInverted}

\* the mass of the first calculator; the second one has twice the mass
EnergyMassSet == {70}

PixelRatioSet == {Rat(1, 100), Rat(1, 50)}

\* the phase kinds of the hand-made lists
KindSet == {RUN, PLANT}

\* an interval as detect_phases reports it, without the velocity statistics
Interval(kind, start_frame, end_frame, f) ==
    [phase |-> kind,
     start_frame |-> start_frame,
     end_frame |-> end_frame,
     duration |-> Rat(end_frame - start_frame + 1, f)]

\* the lists of contiguous intervals over frames s..n-1, neighbours of different
\* kinds, the first kind other than prev
RECURSIVE CoverFrom(_, _, _, _)
CoverFrom(s, n, prev, f) ==
    IF s >= n THEN {<<>>}
    ELSE UNION {{<<Interval(kind, s, e, f)>> \o rest : rest \in CoverFrom(e + 1, n, kind, f)} :
                  e \in s..(n - 1), kind \in KindSet \ {prev}}

\* the phase lists handed to calculate_phase_energies for n frames: none, or
\* run, plant, run, ... over all the frames
IntervalLists(n, f) == {<<>>} \cup CoverFrom(0, n, PLANT, f)

InitEnergy ==
    /\ landmarks_list \in SeqsUpTo(EnergyFrameSet, MaxEnergyFrames)
    /\ fps \in FpsSet
    /\ self_phases = <<>>
    /\ phases \in IntervalLists(Len(landmarks_list), fps)
    /\ phase_energies = <<>>
    /\ energy_trace = <<>>
    /\ heavier = NoCalculator
    /\ athlete_mass \in EnergyMassSet
    /\ pixel_to_meter \in PixelRatioSet
    /\ self_comparisons = <<>>
    /\ comparisons = <<>>
    /\ caller = "test"
    /\ pc = "segmented"
    /\ invoked = <<>>
    /\ outcome = "none"
    /\ detect_trace = NoTrace
    /\ identified = NotIdentified
    /\ summary = NoSummary
    /\ reference_athletes = REFERENCE_ATHLETES
    /\ other_comparisons = <<>>
    /\ latest = NoCall
    /\ earlier = NoCall

\* EnergyCalculator(athlete_mass, pixel_to_meter).calculate_phase_energies(
\*     landmarks_list, phases, video_info)
CalculateEnergiesCall ==
    /\ pc = "segmented"
    /\ phase_energies' = calculate_phase_energies(landmarks_list, phases, fps,
                                                  athlete_mass, pixel_to_meter)
    /\ energy_trace' = EnergyTrace(landmarks_list, phases, fps, athlete_mass, pixel_to_meter)
    /\ pc' = "energies"
    /\ UNCHANGED <<landmarks_list, fps, self_phases, phases, heavier, athlete_mass,
                   pixel_to_meter, self_comparisons, comparisons, caller, invoked, outcome>>
    /\ UNCHANGED <<detect_trace, identified, summary, reference_athletes, other_comparisons,
                   latest, earlier>>

\* EnergyCalculator(2 * athlete_mass, pixel_to_meter).calculate_phase_energies(
\*     landmarks_list, phases, video_info)
CalculateEnergiesHeavier ==
    /\ pc = "energies"
    /\ heavier' =
         [athlete_mass |-> 2 * athlete_mass,
          phase_energies |-> calculate_phase_energies(landmarks_list, phases, fps,
                                                      2 * athlete_mass, pixel_to_meter),
          energy_trace |-> EnergyTrace(landmarks_list, phases, fps,
                                       2 * athlete_mass, pixel_to_meter)]
    /\ pc' = "energies_twice"
    /\ UNCHANGED <<landmarks_list, fps, self_phases, phases, phase_energies, energy_trace,
                   athlete_mass, pixel_to_meter, self_comparisons, comparisons, caller,
                   invoked, outcome>>
    /\ UNCHANGED <<detect_trace, identified, summary, reference_athletes, other_comparisons,
                   latest, earlier>>

NextEnergy == CalculateEnergiesCall \/ CalculateEnergiesHeavier

SpecEnergy == InitEnergy /\ [][NextEnergy]_vars

----------------------------------------------------------------------------
(* A caller that keeps its objects: one PhaseDetector, one EnergyCalculator   *)
(* and two PerformanceComparators are built once and their methods are called *)
(* in any order, with the values below. latest records each call, earlier a  *)
(* call the caller has kept to compare a later result with.                   *)

MaxCalls == 3

\* the landmark lists handed to detect_phases: empty, without a pose, the frame
\* of the tests, and a pose after a frame without one
ReuseVideoSet == {<<>>, <<None>>, <<PoseStand>>, <<None, PoseFly>>}

\* the athlete_energies of test_compare_performance (the fields the comparison
\* reads)
HandMadeEnergies == <<EnergyEntry(RUN, 2100, Rat(35, 10))>>

Comparators == {1, 2}

\* the fps of the videos of the tests
ReuseFpsSet == {30}

\* f"{x:.2f}": the number of hundredths nearest to x
Hundredths(x) == (200 * x.n + x.d) \div (2 * x.d)

\* get_phase_summary on self.phases = stored: the text is kept as the numbers
\* and names it prints, one entry per phase
get_phase_summary(stored) ==
    IF stored = <<>> THEN [header |-> "No phases detected", entries |-> <<>>]
    ELSE [header |-> "Detected Pole Vault Phases:",
          entries |-> [i \in 1..Len(stored) |->
            [name |-> stored[i].phase,
             frames |-> <<stored[i].start_frame, stored[i].end_frame>>,
             duration |-> Hundredths(stored[i].duration),
             velocity |-> [initial |-> Hundredths(stored[i].velocity_stats.initial),
                           max |-> Hundredths(stored[i].velocity_stats.max),
                           average |-> Hundredths(stored[i].velocity_stats.average),
                           final |-> Hundredths(stored[i].velocity_stats.final)]]]]

Call(method, instance, args, self_before, result) ==
    [method |-> method, instance |-> instance, args |-> args,
     self_before |-> self_before, result |-> result]

InitReuse ==
    /\ landmarks_list = <<>>
    /\ fps = 30
    /\ self_phases = <<>>
    /\ detect_trace = NoTrace
    /\ identified = NotIdentified
    /\ summary = NoSummary
    /\ phases = <<>>
    /\ phase_energies = <<>>
    /\ energy_trace = <<>>
    /\ heavier = NoCalculator
    /\ athlete_mass \in {70, 79}
    /\ pixel_to_meter = Rat(1, 100)
    /\ reference_athletes = REFERENCE_ATHLETES
    /\ self_comparisons = <<>>
    /\ other_comparisons = <<>>
    /\ latest = NoCall
    /\ earlier = NoCall
    /\ comparisons = <<>>
    /\ caller = "test"
    /\ pc = "constructed"
    /\ invoked = <<>>
    /\ outcome = "none"

\* DetectAgain with self.phases assigned before the check of the list, so that
\* an empty list empties it (a variant used to test the sensitivity of C30)
DetectAgain_storing_every_result ==
    /\ Len(invoked) < MaxCalls
    /\ \E ll \in ReuseVideoSet, f \in ReuseFpsSet :
          LET result == detect_phases(ll, f)
          IN  /\ landmarks_list' = ll
              /\ fps' = f
              /\ phases' = result
              /\ self_phases' = result
              /\ detect_trace' = IF ll = <<>> THEN detect_trace ELSE DetectRun(ll, f)
              /\ latest' = Call("detect_phases", 1, <<ll, f>>, self_phases, result)
    /\ pc' = "detect_phases"
    /\ invoked' = Append(invoked, "detect_phases")
    /\ UNCHANGED <<identified, summary, phase_energies, energy_trace, heavier, athlete_mass,
                   pixel_to_meter, reference_athletes, self_comparisons, other_comparisons,
                   earlier, comparisons, caller, outcome>>

\* phase_detector.detect_phases(landmarks_list, video_info) on the kept detector
DetectAgain ==
    /\ Len(invoked) < MaxCalls
    /\ \E ll \in ReuseVideoSet, f \in ReuseFpsSet :
          LET result == detect_phases(ll, f)
          IN  /\ landmarks_list' = ll
              /\ fps' = f
              /\ phases' = result
              /\ self_phases' = IF ll = <<>> THEN self_phases ELSE result
              /\ detect_trace' = IF ll = <<>> THEN detect_trace ELSE DetectRun(ll, f)
              /\ latest' = Call("detect_phases", 1, <<ll, f>>, self_phases, result)
    /\ pc' = "detect_phases"
    /\ invoked' = Append(invoked, "detect_phases")
    /\ UNCHANGED <<identified, summary, phase_energies, energy_trace, heavier, athlete_mass,
                   pixel_to_meter, reference_athletes, self_comparisons, other_comparisons,
                   earlier, comparisons, caller, outcome>>

\* phase_detector.get_phase_summary()
PhaseSummaryCall ==
    /\ Len(invoked) < MaxCalls
    /\ summary' = get_phase_summary(self_phases)
    /\ latest' = Call("get_phase_summary", 1, <<>>, self_phases, get_phase_summary(self_phases))
    /\ pc' = "get_phase_summary"
    /\ invoked' = Append(invoked, "get_phase_summary")
    /\ UNCHANGED <<landmarks_list, fps, self_phases, detect_trace, identified, phases,
                   phase_energies, energy_trace, heavier, athlete_mass, pixel_to_meter,
                   reference_athletes, self_comparisons, other_comparisons, earlier,
                   comparisons, caller, outcome>>

\* energy_calculator.calculate_phase_energies(landmarks_list, phases, video_info)
\* on the last landmark list and the phases returned for it
EnergiesAgain ==
    /\ Len(invoked) < MaxCalls
    /\ LET result == calculate_phase_energies(landmarks_list, phases, fps, athlete_mass,
                                              pixel_to_meter)
       IN  /\ phase_energies' = result
           /\ latest' = Call("calculate_phase_energies", 1,
                             <<landmarks_list, phases, fps, athlete_mass, pixel_to_meter>>,
                             <<>>, result)
    /\ energy_trace' = EnergyTrace(landmarks_list, phases, fps, athlete_mass, pixel_to_meter)
    /\ pc' = "calculate_phase_energies"
    /\ invoked' = Append(invoked, "calculate_phase_energies")
    /\ UNCHANGED <<landmarks_list, fps, self_phases, detect_trace, identified, summary, phases,
                   heavier, athlete_mass, pixel_to_meter, reference_athletes,
                   self_comparisons, other_comparisons, earlier, comparisons, caller,
                   outcome>>

\* the caller writes an energy map by hand, as test_compare_performance does
LoadEnergies ==
    /\ Len(invoked) < MaxCalls
    /\ phase_energies # HandMadeEnergies
    /\ phase_energies' = HandMadeEnergies
    /\ energy_trace' = <<>>
    /\ UNCHANGED <<landmarks_list, fps, self_phases, detect_trace, identified, summary, phases,
                   heavier, athlete_mass, pixel_to_meter, reference_athletes,
                   self_comparisons, other_comparisons, latest, earlier, comparisons, caller,
                   pc, invoked, outcome>>

\* CompareAgain with the reference energies scaled to the athlete's mass in the
\* catalog itself (a variant used to test the sensitivity of C22)
CompareAgain_scaling_catalog(c) ==
    /\ Len(invoked) < MaxCalls
    /\ LET result == compare_performance(phase_energies, athlete_mass)
       IN  /\ comparisons' = result
           /\ IF c = 1
              THEN self_comparisons' = result /\ UNCHANGED other_comparisons
              ELSE other_comparisons' = result /\ UNCHANGED self_comparisons
           /\ latest' = Call("compare_performance", c, <<phase_energies, athlete_mass>>,
                             IF c = 1 THEN self_comparisons ELSE other_comparisons, result)
    /\ reference_athletes' =
         [r \in 1..Len(reference_athletes) |->
            [key |-> reference_athletes[r].key,
             value |-> [reference_athletes[r].value EXCEPT !.phase_energies =
                 [i \in 1..Len(@) |->
                    IF @[i].key \in Keys(phase_energies)
                    THEN [key |-> @[i].key,
                          value |-> [@[i].value EXCEPT !.energy_generated =
                              ScaledReference(@, MassFactor(athlete_mass,
                                                            reference_athletes[r].value.mass))]]
                    ELSE @[i]]]]]
    /\ pc' = "compare_performance"
    /\ invoked' = Append(invoked, "compare_performance")
    /\ UNCHANGED <<landmarks_list, fps, self_phases, detect_trace, identified, summary, phases,
                   phase_energies, energy_trace, heavier, athlete_mass, pixel_to_meter,
                   earlier, caller, outcome>>

\* compare_performance(athlete_energies, athlete_mass) on comparator c
CompareAgain(c) ==
    /\ Len(invoked) < MaxCalls
    /\ LET result == compare_performance(phase_energies, athlete_mass)
       IN  /\ comparisons' = result
           /\ IF c = 1
              THEN self_comparisons' = result /\ UNCHANGED other_comparisons
              ELSE other_comparisons' = result /\ UNCHANGED self_comparisons
           /\ latest' = Call("compare_performance", c, <<phase_energies, athlete_mass>>,
                             IF c = 1 THEN self_comparisons ELSE other_comparisons, result)
    /\ pc' = "compare_performance"
    /\ invoked' = Append(invoked, "compare_performance")
    /\ UNCHANGED <<landmarks_list, fps, self_phases, detect_trace, identified, summary, phases,
                   phase_energies, energy_trace, heavier, athlete_mass, pixel_to_meter,
                   reference_athletes, earlier, caller, outcome>>

\* the caller keeps the last call, once
KeepResult ==
    /\ latest # NoCall
    /\ earlier = NoCall
    /\ earlier' = latest
    /\ UNCHANGED <<landmarks_list, fps, self_phases, detect_trace, identified, summary, phases,
                   phase_energies, energy_trace, heavier, athlete_mass, pixel_to_meter,
                   reference_athletes, self_comparisons, other_comparisons, latest,
                   comparisons, caller, pc, invoked, outcome>>

NextReuse ==
    \/ DetectAgain
    \/ PhaseSummaryCall
    \/ EnergiesAgain
    \/ LoadEnergies
    \/ \E c \in Comparators : CompareAgain(c)
    \/ KeepResult

SpecReuse == InitReuse /\ [][NextReuse]_vars

----------------------------------------------------------------------------
(* Properties of detect_phases, checked under SpecDetect *)

HasPose(ll) == \E i \in 1..Len(ll) : ll[i] # None

\* C1: for every landmark sequence of length N >= 1 with at least one non-null
\* frame, the intervals returned by detect_phases are ordered by start_frame,
\* do not overlap, leave no gap, and together cover exactly the frames 0..N-1.
C1_IntervalsPartitionAllFrames ==
    (pc = "detected" /\ HasPose(landmarks_list)) =>
        /\ Len(phases) >= 1
        /\ phases[1].start_frame = 0
        /\ phases[Len(phases)].end_frame = Len(landmarks_list) - 1
        /\ \A i \in 1..Len(phases) : phases[i].start_frame <= phases[i].end_frame
        /\ \A i \in 1..(Len(phases) - 1) :
              phases[i + 1].start_frame = phases[i].end_frame + 1

\* C3: detect_phases returns the empty list when the landmark sequence is empty
\* and when every frame of it is null, for any length and fps.
C3_NoPoseGivesNoPhases ==
    (pc = "detected" /\ NoPoseDetected(landmarks_list)) => phases = <<>>

\* an all-null sequence of several frames has been segmented
C3_Witness ==
    /\ pc = "detected"
    /\ Len(landmarks_list) >= 2
    /\ NoPoseDetected(landmarks_list)
    /\ phases = <<>>

\* the frames are all the same pose
StillVideo ==
    /\ Len(landmarks_list) >= 1
    /\ landmarks_list[1] # None
    /\ \A i \in 1..Len(landmarks_list) : landmarks_list[i] = landmarks_list[1]

\* C18: for a sequence of N >= 1 identical non-null landmark frames (no
\* motion), detect_phases returns exactly one interval, with start_frame 0,
\* end_frame N-1, duration N/fps (1.0 s for N = 30, fps = 30), and
\* velocity_stats max, min, average, initial and final all equal to 0.
C18_StillVideoIsOnePhase ==
    (pc = "detected" /\ StillVideo) =>
        /\ Len(phases) = 1
        /\ phases[1].start_frame = 0
        /\ phases[1].end_frame = Len(landmarks_list) - 1
        /\ phases[1].duration = Rat(Len(landmarks_list), fps)
        /\ (Len(landmarks_list) = 30 /\ fps = 30) => phases[1].duration = FromInt(1)
        /\ phases[1].velocity_stats
             = [max |-> Zero, min |-> Zero, average |-> Zero, initial |-> Zero, final |-> Zero]

\* the video of the tests, 30 identical frames at 30 fps, has been segmented
C18_Witness ==
    /\ pc = "detected"
    /\ StillVideo
    /\ Len(landmarks_list) = 30
    /\ fps = 30
    /\ Len(phases) = 1
    /\ phases[1].end_frame = 29

SingleFrame == Len(landmarks_list) = 1 /\ landmarks_list[1] # None

\* C4 as stated: a sequence of exactly one non-null frame yields exactly one
\* interval with start_frame = end_frame = 0 and a duration of zero seconds.
C4_SingleFrameZeroDuration ==
    (pc = "detected" /\ SingleFrame) =>
        /\ Len(phases) = 1
        /\ phases[1].start_frame = 0
        /\ phases[1].end_frame = 0
        /\ phases[1].duration = Zero

\* C4 as amended: a sequence of exactly one non-null frame yields exactly one
\* interval with start_frame = end_frame = 0 and a duration of 1/fps seconds.
C4_SingleFrameOneFrameDuration ==
    (pc = "detected" /\ SingleFrame) =>
        /\ Len(phases) = 1
        /\ phases[1].start_frame = 0
        /\ phases[1].end_frame = 0
        /\ phases[1].duration = Rat(1, fps)

\* a one-frame sequence with a pose has been segmented
C4_Witness ==
    /\ pc = "detected"
    /\ SingleFrame
    /\ Len(phases) = 1

----------------------------------------------------------------------------
(* Properties of compare_performance, checked under SpecCompare *)

Results == {comparisons[r].value : r \in 1..Len(comparisons)}

\* the phase comparisons of one result, as [key, value] entries
Compared(res) == {res.phase_comparisons[i] : i \in 1..Len(res.phase_comparisons)}

\* the number of recommendations of one issue type for one phase
RecCount(res, phase_name, issue_type) ==
    Cardinality({j \in 1..Len(res.recommendations) :
                    /\ res.recommendations[j].phase = phase_name
                    /\ res.recommendations[j].issue.type = issue_type})

\* C2: for every athlete energy map and every mass in (0, 200], the
\* overall_score of every result of compare_performance lies in [0, 100],
\* negative athlete or reference energies included.
C2_OverallScoreWithinRange ==
    (pc = "compared" /\ athlete_mass > 0 /\ athlete_mass <= 200) =>
        \A res \in Results :
            RLe(Zero, res.overall_score) /\ RLe(res.overall_score, FromInt(100))

\* C7: for every compared phase, energy_ratio is 0 when the mass-scaled
\* reference energy (reference energy_generated * athleteMass / referenceMass)
\* is zero, and the comparison completes; otherwise energy_ratio is the athlete
\* energy_generated divided by the mass-scaled reference energy.
C7_RatioDefinedOnZeroReference ==
    pc = "compared" =>
        /\ Len(comparisons) = Len(REFERENCE_ATHLETES)
        /\ \A r \in 1..Len(REFERENCE_ATHLETES) :
             LET ref == REFERENCE_ATHLETES[r].value
                 res == comparisons[r].value
             IN  \A e \in 1..Len(phase_energies) :
                   LET k == phase_energies[e].key
                   IN  k \in Keys(ref.phase_energies) =>
                         /\ k \in Keys(res.phase_comparisons)
                         /\ LET ratio == Lookup(res.phase_comparisons, k).energy_ratio
                                ref_e == Lookup(ref.phase_energies, k).energy_generated
                                \* ref_e * athlete_mass / ref.mass, over ref.mass
                                scaled_n == ref_e.n * athlete_mass
                            IN  IF scaled_n = 0
                                THEN ratio = Zero
                                ELSE RMul(ratio, Rat(scaled_n, ref_e.d * ref.mass))
                                       = phase_energies[e].value.energy_generated

\* a phase with non-zero athlete energy compared at mass 0: the scaled reference
\* energy is zero and the ratio is 0
C7_Witness ==
    /\ pc = "compared"
    /\ athlete_mass = 0
    /\ \E res \in Results : \E c \in Compared(res) :
          c.value.energy_ratio = Zero /\ c.value.athlete_energy # Zero

\* C8: for every compared phase, performance_level is 'Excellent' iff
\* ratio >= 0.95, 'Good' iff 0.85 <= ratio < 0.95, 'Fair' iff
\* 0.75 <= ratio < 0.85 and 'Needs Improvement' iff ratio < 0.75.
C8_LevelByRatioThresholds ==
    pc = "compared" =>
        \A res \in Results : \A c \in Compared(res) :
            LET q == c.value.energy_ratio
                level == c.value.performance_level
            IN  /\ level = "Excellent" <=> 100 * q.n >= 95 * q.d
                /\ level = "Good" <=> (100 * q.n >= 85 * q.d /\ 100 * q.n < 95 * q.d)
                /\ level = "Fair" <=> (100 * q.n >= 75 * q.d /\ 100 * q.n < 85 * q.d)
                /\ level = "Needs Improvement" <=> 100 * q.n < 75 * q.d

\* one result holds a phase at a ratio of exactly 0.85, rated Good, and one at
\* exactly 0.75, rated Fair
C8_Witness ==
    /\ pc = "compared"
    /\ \E res \in Results : \E c1, c2 \in Compared(res) :
          /\ c1.value.energy_ratio = Rat(85, 100) /\ c1.value.performance_level = "Good"
          /\ c2.value.energy_ratio = Rat(75, 100) /\ c2.value.performance_level = "Fair"

\* C9: for every compared phase of a reference profile, the recommendations
\* hold exactly one energy-shortfall recommendation for the phase when its
\* energy_ratio < 0.85 and none otherwise (none at exactly 0.85).
C9_EnergyRecommendationIffShortfall ==
    pc = "compared" =>
        \A res \in Results : \A c \in Compared(res) :
            LET q == c.value.energy_ratio
            IN  RecCount(res, c.key, "energy") = IF 100 * q.n < 85 * q.d THEN 1 ELSE 0

\* one result holds a phase at a ratio of exactly 0.85 without an energy
\* recommendation and another phase with one
C9_Witness ==
    /\ pc = "compared"
    /\ \E res \in Results : \E c1, c2 \in Compared(res) :
          /\ c1.value.energy_ratio = Rat(85, 100) /\ RecCount(res, c1.key, "energy") = 0
          /\ RecCount(res, c2.key, "energy") = 1

\* C10: for every compared phase, a duration recommendation is emitted iff
\* |athlete duration - reference optimal_duration| > 0.2 (none at exactly 0.2):
\* the 'too long' one when the difference is positive, the 'too short' one
\* when it is negative, never both.
C10_DurationRecommendationIffOff ==
    pc = "compared" =>
        \A r \in 1..Len(REFERENCE_ATHLETES) :
            LET ref == REFERENCE_ATHLETES[r].value
                res == comparisons[r].value
            IN  \A c \in Compared(res) :
                  LET diff == RSub(Lookup(phase_energies, c.key).duration,
                                   Lookup(ref.phase_energies, c.key).optimal_duration)
                  IN  /\ RecCount(res, c.key, "duration_long")
                           = IF 10 * diff.n > 2 * diff.d THEN 1 ELSE 0
                      /\ RecCount(res, c.key, "duration_short")
                           = IF 10 * diff.n < (-2) * diff.d THEN 1 ELSE 0

\* one result holds a phase exactly 0.2 s short of the optimum without a
\* duration recommendation, a phase with a 'too long' one and, under the other
\* profile, a phase with a 'too short' one
C10_Witness ==
    /\ pc = "compared"
    /\ \E res \in Results : \E c1, c2 \in Compared(res) :
          /\ c1.value.duration_difference = Rat(-2, 10)
          /\ RecCount(res, c1.key, "duration_long") = 0
          /\ RecCount(res, c1.key, "duration_short") = 0
          /\ RecCount(res, c2.key, "duration_long") = 1
    /\ \E res \in Results : \E c \in Compared(res) :
          RecCount(res, c.key, "duration_short") = 1

\* min(energy_ratio * 100, 100) of one compared phase
CappedScore(c) ==
    IF c.value.energy_ratio.n > c.value.energy_ratio.d
    THEN FromInt(100)
    ELSE Rat(100 * c.value.energy_ratio.n, c.value.energy_ratio.d)

\* C11: for every reference profile, overall_score is the arithmetic mean over
\* all compared phases of min(energy_ratio * 100, 100), and is 0 when no phase
\* was compared (athlete map empty or sharing no phase key with the profile).
C11_OverallScoreIsCappedMean ==
    pc = "compared" =>
        \A r \in 1..Len(REFERENCE_ATHLETES) :
            LET res == comparisons[r].value
                n == Len(res.phase_comparisons)
                shared == Keys(phase_energies)
                            \cap Keys(REFERENCE_ATHLETES[r].value.phase_energies)
            IN  /\ shared = {} => res.overall_score = Zero
                /\ shared # {} =>
                     /\ n > 0
                     /\ RMul(res.overall_score, FromInt(n))
                          = SeqSum([i \in 1..n |-> CappedScore(res.phase_comparisons[i])])

\* a result with two compared phases, one capped at 100 and one below it
C11_Witness ==
    /\ pc = "compared"
    /\ \E res \in Results :
          /\ Len(res.phase_comparisons) = 2
          /\ \E c1, c2 \in Compared(res) :
                /\ RLt(FromInt(1), c1.value.energy_ratio)
                /\ RLt(c2.value.energy_ratio, FromInt(1))
                /\ RLt(Zero, c2.value.energy_ratio)
          /\ RLt(res.overall_score, FromInt(100))

\* C12: for any athlete energy map (the empty map included), compare_performance
\* returns exactly one result per built-in reference profile (mondo_duplantis
\* and karvala_manolo), and each result's phase_comparisons has exactly the
\* phase keys that occur both in the athlete map and in that profile's catalog;
\* athlete phases absent from the profile are skipped.
C12_OneResultPerProfileSharedKeys ==
    pc = "compared" =>
        /\ Len(comparisons) = 2
        /\ comparisons[1].key = "mondo_duplantis"
        /\ comparisons[2].key = "karvala_manolo"
        /\ \A r \in 1..Len(comparisons) :
             LET res == comparisons[r].value
                 catalog == Lookup(REFERENCE_ATHLETES, comparisons[r].key).phase_energies
             IN  /\ Keys(res.phase_comparisons) = Keys(phase_energies) \cap Keys(catalog)
                 /\ Len(res.phase_comparisons) = Cardinality(Keys(res.phase_comparisons))

\* an athlete map with two catalog phases and one phase no profile has
C12_Witness ==
    /\ pc = "compared"
    /\ Keys(phase_energies) = {RUN, PIKE, "warm-up"}
    /\ \A res \in Results : Keys(res.phase_comparisons) = {RUN, PIKE}

\* the sample athlete of the tests: mass 70, run 2100 J in 3.5 s
SampleRun ==
    /\ athlete_mass = 70
    /\ RUN \in Keys(phase_energies)
    /\ Lookup(phase_energies, RUN) = [energy_generated |-> FromInt(2100),
                                      duration |-> Rat(35, 10)]

\* C13: for every compared phase, reference_energy is the reference
\* energy_generated * (athleteMass / referenceMass) and energy_difference is
\* the athlete energy_generated - reference_energy; an athlete of mass 70 with
\* run energy_generated 2100 and duration 3.5 compared with the 79 kg profile
\* (run 2200, optimal duration 3.5) gets a ratio above 0.95 (237/220),
\* performance_level 'Excellent' and no recommendation of either kind for run.
C13_ReferenceScaledByMass ==
    pc = "compared" =>
        /\ \A r \in 1..Len(REFERENCE_ATHLETES) :
             LET ref == REFERENCE_ATHLETES[r].value
                 res == comparisons[r].value
             IN  \A c \in Compared(res) :
                   LET ref_e == Lookup(ref.phase_energies, c.key).energy_generated
                       scaled == Rat(ref_e.n * athlete_mass, ref_e.d * ref.mass)
                   IN  /\ c.value.reference_energy = scaled
                       /\ c.value.energy_difference
                            = RSub(Lookup(phase_energies, c.key).energy_generated, scaled)
        /\ SampleRun =>
             LET res == comparisons[1].value
                 run == Lookup(res.phase_comparisons, RUN)
             IN  /\ REFERENCE_ATHLETES[1].value.mass = 79
                 /\ run.reference_energy = Rat(154000, 79)
                 /\ run.energy_ratio = Rat(237, 220)
                 /\ 100 * run.energy_ratio.n > 95 * run.energy_ratio.d
                 /\ run.performance_level = "Excellent"
                 /\ RecCount(res, RUN, "energy") = 0
                 /\ RecCount(res, RUN, "duration_long") = 0
                 /\ RecCount(res, RUN, "duration_short") = 0

\* the sample athlete has been compared
C13_Witness ==
    /\ pc = "compared"
    /\ SampleRun
    /\ Lookup(comparisons[1].value.phase_comparisons, RUN).performance_level = "Excellent"

----------------------------------------------------------------------------
(* Properties of calculate_phase_energies, checked under SpecEnergy *)

EnergiesDone == pc \in {"energies", "energies_twice"}

\* the runs of calculate_phase_energies made so far: the mass and the trace
EnergyRuns ==
    {[athlete_mass |-> athlete_mass, energy_trace |-> energy_trace]}
      \cup (IF pc = "energies_twice"
            THEN {[athlete_mass |-> heavier.athlete_mass,
                   energy_trace |-> heavier.energy_trace]}
            ELSE {})

\* the frames of interval k of the phase list: its length and its i-th frame
SliceLen(k) == phases[k].end_frame - phases[k].start_frame + 1

SliceFrame(k, i) == landmarks_list[phases[k].start_frame + i]

\* the largest ankle y among the non-null frames of interval k, at least 0
SliceGround(k) ==
    LET ys == {0} \cup UNION {{SliceFrame(k, i).left_ankle.y, SliceFrame(k, i).right_ankle.y} :
                                i \in {j \in 1..SliceLen(k) : SliceFrame(k, j) # None}}
    IN  CHOOSE y \in ys : \A z \in ys : z <= y

\* four times the y of the center of mass of a non-null frame
TorsoY4(frame) ==
    frame.left_hip.y + frame.right_hip.y + frame.left_shoulder.y + frame.right_shoulder.y

\* four times the x of the center of mass of a non-null frame
TorsoX4(frame) ==
    frame.left_hip.x + frame.right_hip.x + frame.left_shoulder.x + frame.right_shoulder.x

\* C14: for every phase slice, every frame of it (null or not), every mass in
\* (0, 200] and every positive pixel-to-meter ratio, the per-frame potential
\* energy is >= 0, and it is exactly 0 for null frames and for frames whose
\* center of mass lies at or below the slice's ground level (image y at or
\* beyond the largest ankle y of the slice).
C14_PotentialEnergyNonNegative ==
    EnergiesDone =>
        \A run \in EnergyRuns : \A k \in 1..Len(phases) :
            LET pe == run.energy_trace[k].potential_energies
            IN  /\ Len(pe) = SliceLen(k)
                /\ \A i \in 1..SliceLen(k) :
                     /\ pe[i].n >= 0
                     /\ SliceFrame(k, i) = None => pe[i] = Zero
                     /\ (SliceFrame(k, i) # None
                           /\ TorsoY4(SliceFrame(k, i)) >= 4 * SliceGround(k)) => pe[i] = Zero

\* a slice with a null frame and a frame above the ground, and a slice whose
\* only frame has its center of mass below its feet
C14_Witness ==
    /\ pc = "energies"
    /\ \E k1, k2 \in 1..Len(phases) :
          /\ \E i \in 1..SliceLen(k1) : SliceFrame(k1, i) = None
          /\ \E i \in 1..SliceLen(k1) : energy_trace[k1].potential_energies[i].n > 0
          /\ SliceLen(k2) = 1
          /\ SliceFrame(k2, 1) # None
          /\ TorsoY4(SliceFrame(k2, 1)) > 4 * SliceGround(k2)
          /\ energy_trace[k2].potential_energies[1] = Zero

\* C15: within each phase slice, the per-frame kinetic energy is 0 at the
\* slice's first frame, at every null frame, and at every frame whose
\* predecessor in the slice is null; hence for every phase the reported
\* kinetic_energy.initial is 0, even when the athlete was moving across the
\* boundary from the previous phase.
C15_KineticEnergyZeroAtSliceStart ==
    EnergiesDone =>
        /\ \A run \in EnergyRuns : \A k \in 1..Len(phases) :
             LET ke == run.energy_trace[k].kinetic_energies
             IN  /\ Len(ke) = SliceLen(k)
                 /\ ke[1] = Zero
                 /\ \A i \in 1..SliceLen(k) : SliceFrame(k, i) = None => ke[i] = Zero
                 /\ \A i \in 2..SliceLen(k) : SliceFrame(k, i - 1) = None => ke[i] = Zero
                 /\ run.energy_trace[k].record.kinetic_energy.initial = Zero
        /\ \A e \in 1..Len(phase_energies) :
             phase_energies[e].value.kinetic_energy.initial = Zero

\* a phase that starts with the center of mass away from where the previous
\* phase left it, and goes on moving: its first kinetic energy is 0, its
\* second is not
C15_Witness ==
    /\ pc = "energies"
    /\ \E k \in 2..Len(phases) :
          /\ SliceFrame(k - 1, SliceLen(k - 1)) # None
          /\ SliceFrame(k, 1) # None
          /\ TorsoY4(SliceFrame(k - 1, SliceLen(k - 1))) # TorsoY4(SliceFrame(k, 1))
          /\ SliceLen(k) >= 2
          /\ energy_trace[k].kinetic_energies[1] = Zero
          /\ energy_trace[k].kinetic_energies[2].n > 0
          /\ Lookup(phase_energies, phases[k].phase).kinetic_energy.initial = Zero

\* C16: for every phase record produced by calculate_phase_energies, the
\* total-energy series is the frame-wise sum of the kinetic and potential
\* series, energy_generated = total_energy.final - total_energy.initial over
\* the phase's inclusive frame range [start_frame, end_frame], and duration is
\* copied unchanged from the input interval.
C16_TotalIsSumAndGeneratedIsGain ==
    EnergiesDone =>
        \A run \in EnergyRuns : \A k \in 1..Len(phases) :
            LET t == run.energy_trace[k]
            IN  /\ Len(t.total_energies) = phases[k].end_frame - phases[k].start_frame + 1
                /\ Len(t.kinetic_energies) = Len(t.total_energies)
                /\ Len(t.potential_energies) = Len(t.total_energies)
                /\ \A i \in 1..Len(t.total_energies) :
                     t.total_energies[i] = RAdd(t.kinetic_energies[i], t.potential_energies[i])
                /\ t.record.total_energy.initial = t.total_energies[1]
                /\ t.record.total_energy.final = t.total_energies[Len(t.total_energies)]
                /\ t.record.energy_generated
                     = RSub(t.record.total_energy.final, t.record.total_energy.initial)
                /\ t.record.duration = phases[k].duration

\* a phase of several frames that starts with energy and ends with another
\* amount of it, kinetic energy included
C16_Witness ==
    /\ pc = "energies"
    /\ \E k \in 1..Len(phases) :
          LET t == energy_trace[k]
          IN  /\ SliceLen(k) >= 2
              /\ t.record.total_energy.initial.n > 0
              /\ t.kinetic_energies[SliceLen(k)].n > 0
              /\ t.potential_energies[SliceLen(k)].n > 0
              /\ t.record.energy_generated # Zero
              /\ t.record.energy_generated # t.record.total_energy.final

\* the place in the phase list of the last interval of a kind
LastOfKind(kind) ==
    CHOOSE k \in 1..Len(phases) :
        /\ phases[k].phase = kind
        /\ \A j \in (k + 1)..Len(phases) : phases[j].phase # kind

\* C17: calculate_phase_energies returns exactly one record per distinct phase
\* kind of its input interval list; when a kind occurs in several disjoint
\* intervals, the stored record is the one computed from the last interval of
\* that kind in list order, and earlier intervals of that kind contribute
\* nothing (overwrite, no aggregation, no error).
C17_OneRecordPerKindLastWins ==
    EnergiesDone =>
        /\ Keys(phase_energies) = {phases[k].phase : k \in 1..Len(phases)}
        /\ Len(phase_energies) = Cardinality(Keys(phase_energies))
        /\ \A e \in 1..Len(phase_energies) :
             phase_energies[e].value
               = energy_trace[LastOfKind(phase_energies[e].key)].record

\* run, plant, run: the record stored for run is the one of the third interval
\* and differs from the one the first interval gave
C17_Witness ==
    /\ pc = "energies"
    /\ Len(phases) = 3
    /\ phases[1].phase = RUN /\ phases[3].phase = RUN
    /\ Len(phase_energies) = 2
    /\ energy_trace[1].record # energy_trace[3].record
    /\ Lookup(phase_energies, RUN) = energy_trace[3].record

\* the center of mass does not move between any two neighbouring frames of
\* interval k that both have a pose
StillSlice(k) ==
    \A i \in 2..SliceLen(k) :
        (SliceFrame(k, i - 1) # None /\ SliceFrame(k, i) # None) =>
            /\ TorsoX4(SliceFrame(k, i - 1)) = TorsoX4(SliceFrame(k, i))
            /\ TorsoY4(SliceFrame(k, i - 1)) = TorsoY4(SliceFrame(k, i))

AllZero(stats) ==
    stats.max = Zero /\ stats.initial = Zero /\ stats.final = Zero /\ stats.average = Zero

\* C19: if the center of mass (mean of the four torso landmarks) is the same in
\* every pair of consecutive non-null frames of a phase's frame range, then
\* that phase's kinetic_energy max, initial, final and average are all 0, for
\* any mass, fps and pixel ratio, and the result contains kinetic_energy,
\* potential_energy and total_energy entries for the phase.
C19_NoMotionNoKineticEnergy ==
    EnergiesDone =>
        /\ \A run \in EnergyRuns : \A k \in 1..Len(phases) :
             /\ {"kinetic_energy", "potential_energy", "total_energy"}
                  \subseteq DOMAIN run.energy_trace[k].record
             /\ StillSlice(k) => AllZero(run.energy_trace[k].record.kinetic_energy)
        /\ \A e \in 1..Len(phase_energies) :
             /\ {"kinetic_energy", "potential_energy", "total_energy"}
                  \subseteq DOMAIN phase_energies[e].value
             /\ StillSlice(LastOfKind(phase_energies[e].key))
                  => AllZero(phase_energies[e].value.kinetic_energy)

\* a phase in which the pose changes from frame to frame while the center of
\* mass stays where it is: no kinetic energy, some potential energy
C19_Witness ==
    /\ pc = "energies"
    /\ \E k \in 1..Len(phases) :
          /\ SliceLen(k) >= 2
          /\ SliceFrame(k, 1) # None /\ SliceFrame(k, 2) # None
          /\ SliceFrame(k, 1) # SliceFrame(k, 2)
          /\ StillSlice(k)
          /\ LastOfKind(phases[k].phase) = k
          /\ AllZero(Lookup(phase_energies, phases[k].phase).kinetic_energy)
          /\ Lookup(phase_energies, phases[k].phase).potential_energy.max.n > 0

Twice(x) == RMul(FromInt(2), x)

TwiceStats(stats) ==
    [initial |-> Twice(stats.initial), final |-> Twice(stats.final),
     max |-> Twice(stats.max), average |-> Twice(stats.average)]

\* C20: for the same landmark sequence, phase list, fps and pixel ratio,
\* doubling the athlete mass doubles every per-frame kinetic energy value, and
\* therefore every kinetic_energy statistic of every phase.
C20_KineticEnergyScalesWithMass ==
    pc = "energies_twice" =>
        /\ heavier.athlete_mass = 2 * athlete_mass
        /\ Len(heavier.energy_trace) = Len(energy_trace)
        /\ \A k \in 1..Len(energy_trace) :
             /\ Len(heavier.energy_trace[k].kinetic_energies) = SliceLen(k)
             /\ \A i \in 1..SliceLen(k) :
                  heavier.energy_trace[k].kinetic_energies[i]
                    = Twice(energy_trace[k].kinetic_energies[i])
        /\ Keys(heavier.phase_energies) = Keys(phase_energies)
        /\ \A e \in 1..Len(phase_energies) :
             Lookup(heavier.phase_energies, phase_energies[e].key).kinetic_energy
               = TwiceStats(phase_energies[e].value.kinetic_energy)

\* a phase with motion in it, computed at the mass and at twice the mass
C20_Witness ==
    /\ pc = "energies_twice"
    /\ \E e \in 1..Len(phase_energies) :
          /\ phase_energies[e].value.kinetic_energy.max.n > 0
          /\ Lookup(heavier.phase_energies, phase_energies[e].key).kinetic_energy.max
               = Twice(phase_energies[e].value.kinetic_energy.max)

----------------------------------------------------------------------------
(* Properties of the callers, checked under SpecPipeline *)

Invoked(stage) == \E i \in 1..Len(invoked) : invoked[i] = stage

\* C5: in every caller, when the landmark sequence is empty or entirely null,
\* the run ends in a 'no pose / no phases' outcome and neither
\* calculate_phase_energies nor compare_performance is invoked in that run.
C5_NoPoseStopsThePipeline ==
    (Invoked("process_video") /\ outcome # "error" /\ NoPoseDetected(landmarks_list)) =>
        /\ ~Invoked("calculate_phase_energies")
        /\ ~Invoked("compare_performance")
        /\ pc = "done" => outcome \in {"no_pose", "no_phases"}

\* C6: in every caller, an athlete mass <= 0 or > 200 is rejected before any
\* pipeline stage (video processing, segmentation, energy computation,
\* comparison) runs.
C6_InvalidMassRejectedFirst ==
    (athlete_mass <= 0 \/ athlete_mass > 200) =>
        /\ invoked = <<>>
        /\ pc = "done" => outcome \in {"invalid_mass", "bad_request"}

----------------------------------------------------------------------------
(* Properties of the signals and the classifier, checked under SpecDetect *)

\* the rules of the classifier as the text states them, on a smoothed triple
RuleHolds(kind, v, h, a) ==
    LET K(i) == FromInt(i)
        abs_a == RAbs(a)
    IN  CASE kind = RUN -> RLt(K(50), v) /\ RLt(h, K(150)) /\ RLt(abs_a, K(30))
          [] kind = PLANT -> RLt(K(20), v) /\ RLt(v, K(50)) /\ RLt(K(100), h) /\ RLt(h, K(200))
          [] kind = TAKEOFF -> RLt(K(0), v) /\ RLt(K(150), h) /\ RLt(h, K(300)) /\ RLt(abs_a, K(60))
          [] kind = SWING_UP -> RLt(K(200), h) /\ RLt(K(30), abs_a) /\ RLt(abs_a, K(90))
          [] kind = EXTENSION_INVERSION -> RLt(K(250), h) /\ RLt(K(80), abs_a)
          [] kind = PUSH_OFF -> RLt(K(300), h) /\ RLt(K(45), abs_a) /\ RLt(abs_a, K(90))
          [] kind = PIKE -> RLt(K(200), h) /\ RLt(abs_a, K(45))

RuleOrder == <<RUN, PLANT, TAKEOFF, SWING_UP, EXTENSION_INVERSION, PUSH_OFF, PIKE>>

\* the places in RuleOrder of the rules a triple satisfies
Satisfied(v, h, a) == {r \in 1..Len(RuleOrder) : RuleHolds(RuleOrder[r], v, h, a)}

\* C23: for every smoothed (velocity, height, angle) triple, the classifier
\* returns exactly one phase kind: the kind of the first rule, in the order
\* RUN, PLANT, TAKEOFF, SWING_UP, EXTENSION_INVERSION, PUSH_OFF, PIKE with the
\* stated strict thresholds, that the triple satisfies, and RUN when it
\* satisfies none.
C23_FirstMatchingRuleOrRun ==
    /\ pc = "identified" =>
         LET sat == Satisfied(identified.velocity, identified.height, identified.angle)
         IN  /\ identified.phase \in VaultPhase
             /\ sat = {} => identified.phase = RUN
             /\ sat # {} =>
                  identified.phase = RuleOrder[CHOOSE r \in sat : \A q \in sat : r <= q]
    /\ pc = "detected" =>
         \A i \in 1..Len(detect_trace.detected) :
             landmarks_list[i] # None => detect_trace.detected[i] \in VaultPhase

\* a triple that satisfies two rules gets the kind of the earlier one, and a
\* triple that satisfies none is a run
C23_Witness ==
    /\ pc = "identified"
    /\ \/ /\ {3, 4} \subseteq Satisfied(identified.velocity, identified.height, identified.angle)
          /\ identified.phase = TAKEOFF
       \/ /\ Satisfied(identified.velocity, identified.height, identified.angle) = {}
          /\ identified.height = FromInt(200)
          /\ identified.phase = RUN

LowerFootY(frame) ==
    IF frame.left_ankle.y >= frame.right_ankle.y THEN frame.left_ankle.y
    ELSE frame.right_ankle.y

\* C24 as stated: for every non-null frame, the segmenter's vertical clearance
\* height equals the larger (lower on screen) of the two ankle y-coordinates
\* minus the mean y of the four torso landmarks (left/right hip and left/right
\* shoulder).
C24_HeightFromTorsoMean ==
    pc = "detected" =>
        \A i \in 1..Len(detect_trace.heights) :
            landmarks_list[i] # None =>
                detect_trace.heights[i]
                  = RSub(FromInt(LowerFootY(landmarks_list[i])),
                         Rat(TorsoY4(landmarks_list[i]), 4))

\* C24 as amended: for every non-null frame, the segmenter's vertical clearance
\* height equals the larger (lower on screen) of the two ankle y-coordinates
\* minus the mean y of the two hip landmarks (left and right hip).
C24_HeightFromHipMean ==
    pc = "detected" =>
        /\ Len(detect_trace.heights) = Len(landmarks_list)
        /\ \A i \in 1..Len(detect_trace.heights) :
              landmarks_list[i] # None =>
                  detect_trace.heights[i]
                    = RSub(FromInt(LowerFootY(landmarks_list[i])),
                           Rat(landmarks_list[i].left_hip.y + landmarks_list[i].right_hip.y, 2))

\* a segmented video with a frame whose feet are at different heights and a
\* frame whose shoulders are above its hips
C24_Witness ==
    /\ pc = "detected"
    /\ \E i, j \in 1..Len(landmarks_list) :
          /\ landmarks_list[i] # None /\ landmarks_list[j] # None
          /\ landmarks_list[i].left_ankle.y # landmarks_list[i].right_ankle.y
          /\ landmarks_list[j].left_shoulder.y < landmarks_list[j].left_hip.y
          /\ detect_trace.heights[i] = FromInt(900)
          /\ detect_trace.heights[j] = FromInt(50)

\* the raw velocities of the frames start_frame..end_frame of an interval
RangeVelocities(interval) ==
    [i \in 1..(interval.end_frame - interval.start_frame + 1) |->
        detect_trace.velocities[interval.start_frame + i]]

\* C25: for every emitted interval, velocity_stats max, min and average are
\* taken over the non-zero raw (unsmoothed) horizontal velocities of the frames
\* start_frame..end_frame, initial and final are the raw velocities of the
\* range's first and last frame, and all five statistics are 0 when the range
\* contains no non-zero velocity.
C25_VelocityStatsOverNonZeroRaw ==
    pc = "detected" =>
        \A k \in 1..Len(phases) :
            LET range == RangeVelocities(phases[k])
                moving == {i \in 1..Len(range) : range[i] # Zero}
                stats == phases[k].velocity_stats
            IN  IF moving = {}
                THEN stats = [max |-> Zero, min |-> Zero, average |-> Zero,
                              initial |-> Zero, final |-> Zero]
                ELSE /\ \E i \in moving : stats.max = range[i]
                     /\ \A i \in moving : RLe(range[i], stats.max)
                     /\ \E i \in moving : stats.min = range[i]
                     /\ \A i \in moving : RLe(stats.min, range[i])
                     /\ RMul(stats.average, FromInt(Cardinality(moving))) = SeqSum(range)
                     /\ stats.initial = range[1]
                     /\ stats.final = range[Len(range)]

\* an interval whose range has frames that move and frames that do not
C25_Witness ==
    /\ pc = "detected"
    /\ \E k \in 1..Len(phases) :
          LET range == RangeVelocities(phases[k])
          IN  /\ \E i, j \in 1..Len(range) : range[i] = Zero /\ range[j] # Zero
              /\ phases[k].velocity_stats.initial = Zero
              /\ phases[k].velocity_stats.min # Zero
              /\ phases[k].velocity_stats.min # phases[k].velocity_stats.max

\* C26: a null frame never opens or closes an interval: every interval's
\* start_frame is the index of a non-null frame, and an interval boundary is
\* placed between frames i-1 and i only if frame i is non-null and its
\* classification differs from the kind of the currently open interval.
C26_NullFramesMakeNoBoundary ==
    pc = "detected" =>
        \A k \in 1..Len(phases) :
            LET i == phases[k].start_frame
            IN  /\ landmarks_list[i + 1] # None
                /\ detect_trace.detected[i + 1] = phases[k].phase
                /\ k > 1 => /\ phases[k - 1].end_frame = i - 1
                            /\ detect_trace.detected[i + 1] # phases[k - 1].phase

\* a segmentation of two intervals or more, one of which has a null frame
\* after its first frame
C26_Witness ==
    /\ pc = "detected"
    /\ Len(phases) >= 2
    /\ \E k \in 1..Len(phases) : \E i \in (phases[k].start_frame + 1)..phases[k].end_frame :
          /\ landmarks_list[i + 1] = None
          /\ \E j \in (i + 1)..phases[k].end_frame : landmarks_list[j + 1] # None

\* the (1-based) places of the frames with a pose
PosePlaces == {i \in 1..Len(landmarks_list) : landmarks_list[i] # None}

\* C28: whenever detect_phases returns a non-empty list, the first interval's
\* start_frame is the index of the first non-null frame (not 0 when the
\* sequence begins with null frames) and the last interval's end_frame is N-1
\* even when the sequence ends with null frames; leading null frames belong to
\* no interval while trailing null frames are absorbed into the last one.
C28_LeadingNullsOutTrailingNullsIn ==
    (pc = "detected" /\ phases # <<>>) =>
        /\ PosePlaces # {}
        /\ LET first_pose == CHOOSE i \in PosePlaces : \A j \in PosePlaces : i <= j
               last_pose == CHOOSE i \in PosePlaces : \A j \in PosePlaces : j <= i
               last == phases[Len(phases)]
           IN  /\ phases[1].start_frame = first_pose - 1
               /\ last.end_frame = Len(landmarks_list) - 1
               /\ \A i \in 0..(first_pose - 2) : \A k \in 1..Len(phases) :
                     ~(phases[k].start_frame <= i /\ i <= phases[k].end_frame)
               /\ \A i \in last_pose..(Len(landmarks_list) - 1) :
                     last.start_frame <= i /\ i <= last.end_frame

\* a segmented video that begins and ends with null frames
C28_Witness ==
    /\ pc = "detected"
    /\ Len(landmarks_list) >= 3
    /\ landmarks_list[1] = None
    /\ landmarks_list[Len(landmarks_list)] = None
    /\ phases # <<>>
    /\ phases[1].start_frame > 0
    /\ phases[Len(phases)].end_frame = Len(landmarks_list) - 1

\* C29: in every list returned by detect_phases, any two consecutive intervals
\* have different phase kinds, every interval satisfies start_frame <=
\* end_frame, and its duration equals (end_frame - start_frame + 1) / fps.
C29_NeighboursDifferDurationByFrames ==
    pc = "detected" =>
        /\ \A k \in 1..(Len(phases) - 1) : phases[k].phase # phases[k + 1].phase
        /\ \A k \in 1..Len(phases) :
              /\ phases[k].start_frame <= phases[k].end_frame
              /\ phases[k].duration
                   = Rat(phases[k].end_frame - phases[k].start_frame + 1, fps)

\* a segmentation of three intervals
C29_Witness ==
    /\ pc = "detected"
    /\ Len(phases) >= 3
    /\ phases[1].phase # phases[2].phase
    /\ phases[2].duration = Rat(phases[2].end_frame - phases[2].start_frame + 1, fps)

----------------------------------------------------------------------------
(* Properties of objects that are used again, checked under SpecReuse *)

CompareStep == latest'.method = "compare_performance" /\ invoked' # invoked

\* C22: after any sequence of compare_performance calls, on any comparator
\* instances and with any arguments, the built-in reference catalog
\* REFERENCE_ATHLETES is unchanged, and each call leaves its athlete_energies
\* argument unchanged; the only state a call writes is the calling instance's
\* own comparisons field.
C22_ComparisonWritesOwnFieldOnly ==
    /\ [](reference_athletes = REFERENCE_ATHLETES)
    /\ [][CompareStep =>
            /\ reference_athletes' = reference_athletes
            /\ phase_energies' = phase_energies
            /\ latest'.args = <<phase_energies, athlete_mass>>
            /\ latest'.instance = 1 =>
                  self_comparisons' = latest'.result /\ UNCHANGED other_comparisons
            /\ latest'.instance = 2 =>
                  other_comparisons' = latest'.result /\ UNCHANGED self_comparisons
            /\ UNCHANGED <<landmarks_list, fps, self_phases, detect_trace, identified, summary,
                           phases, energy_trace, heavier, athlete_mass, pixel_to_meter,
                           earlier>>]_vars

\* both comparators have compared, on different energy maps; the catalog is as
\* it was built
C22_Witness ==
    /\ latest.method = "compare_performance"
    /\ latest.instance = 2
    /\ latest.args[1] # <<>>
    /\ phase_energies = latest.args[1]
    /\ self_comparisons # <<>>
    /\ other_comparisons = latest.result
    /\ other_comparisons # self_comparisons
    /\ reference_athletes = REFERENCE_ATHLETES

\* C30: the detector's stored bookkeeping (self.phases, read by
\* get_phase_summary) equals the result of the most recent detect_phases call
\* whose input was non-empty: a call with a non-empty sequence (even an
\* all-null one) overwrites it with that call's result, whereas a call with an
\* empty sequence returns [] and leaves it unchanged, so get_phase_summary
\* after it still reports the previous run's phases.
C30_StoredPhasesOfLastNonEmptyInput ==
    /\ latest.method = "detect_phases" =>
         IF latest.args[1] = <<>>
         THEN latest.result = <<>> /\ self_phases = latest.self_before
         ELSE self_phases = latest.result
    /\ latest.method = "get_phase_summary" =>
         /\ self_phases = latest.self_before
         /\ summary = latest.result
         /\ IF self_phases = <<>>
            THEN summary.header = "No phases detected" /\ summary.entries = <<>>
            ELSE /\ summary.header = "Detected Pole Vault Phases:"
                 /\ Len(summary.entries) = Len(self_phases)
                 /\ \A i \in 1..Len(self_phases) :
                       /\ summary.entries[i].name = self_phases[i].phase
                       /\ summary.entries[i].frames
                            = <<self_phases[i].start_frame, self_phases[i].end_frame>>
    /\ (/\ latest.method = "get_phase_summary"
        /\ invoked = <<"detect_phases", "detect_phases", "get_phase_summary">>
        /\ landmarks_list = <<>>
        /\ earlier # NoCall
        /\ earlier.method = "detect_phases"
        /\ earlier.args[1] # <<>>) => self_phases = earlier.result

\* a video was segmented, then an empty list, then the summary was asked for:
\* it lists the phases of the video
C30_Witness ==
    /\ latest.method = "get_phase_summary"
    /\ invoked = <<"detect_phases", "detect_phases", "get_phase_summary">>
    /\ landmarks_list = <<>>
    /\ phases = <<>>
    /\ earlier # NoCall /\ earlier.method = "detect_phases" /\ earlier.result # <<>>
    /\ self_phases = earlier.result
    /\ summary.header = "Detected Pole Vault Phases:"
    /\ Len(summary.entries) = Len(earlier.result)

=============================================================================
